---- MODULE Spec2Model ----
(***************************************************************************)
(* Model of the document geometry and enhancement pipeline of docuscan     *)
(* (backend/app/services/scanner_service.py) and of the callers that       *)
(* resolve the corners of a document (backend/app/api/scan.py,             *)
(* backend/app/tasks/processing.py), of the CSRF middleware and the        *)
(* bearer-token dependency in front of the API (backend/app/middleware/    *)
(* csrf.py, backend/app/api/auth.py) and of the two background tasks with  *)
(* the progress records they publish.                                      *)
(*                                                                         *)
(* The scanner keeps two attributes, set at construction and only read      *)
(* afterwards; every operation is otherwise a function of its arguments.    *)
(* The state of the model is the operation that ran last, the arguments it  *)
(* was called with and what it returned, the position and the working image *)
(* of a running enhance_scan call, the image buffers allocated, the         *)
(* attributes of the singleton and the detect_document_edges call each      *)
(* worker thread is in.  A behaviour is one call from the initial state,    *)
(* followed step by step where the order of its steps matters; only the     *)
(* calls of different threads are interleaved.                              *)
(*                                                                         *)
(* Numbers.  Coordinates are float32 in the source.  The model keeps them   *)
(* as integers (every value the model uses is exactly representable in     *)
(* float32) and computes floor(sqrt(n)) exactly; the images and candidates *)
(* of detection are chosen so that the division by scale is exact.         *)
(* Rounding of float32 arithmetic is not modelled.  Brightness and         *)
(* contrast are computed in hundredths.  The Python floats of              *)
(* create_thumbnail and of the area ratio are computed bit for bit         *)
(* (binary64, round to nearest even).  The floats of the bw filter are     *)
(* kept in hundredths of a gray level, its power function to four digits.  *)
(***************************************************************************)
EXTENDS Integers, Sequences, FiniteSets, TLC

VARIABLES
    op,      \* name of the operation that ran last ("none" before the first)
    args,    \* the arguments of that call
    ret,     \* what the call returned
    pc,      \* position inside a running enhance_scan call
    result,  \* enhance_scan's local `result`: the filters applied to image.copy()
    heap,    \* the image buffers (ndarrays) allocated so far, in order
    scanner, \* the attributes of the module's singleton `scanner`
    calls,   \* the detect_document_edges call each worker thread is in
    locals,  \* the local variables of the background task that is running
    published \* the progress records the task has stored and published

vars == <<op, args, ret, pc, result, heap, scanner, calls, locals, published>>

\* ------------------------------------------------------------------ bounds
\* Largest coordinate of a corner point handed to _order_points.
MaxCoord == 2

\* ------------------------------------------------------------ Optional[T]
\* Python's None and a present value, as sequences of length 0 and 1.
None == <<>>

Some(v) == <<v>>

\* ------------------------------------------------------------- geometry
Points == (0..MaxCoord) \X (0..MaxCoord)

\* A 4x2 array: four points in the order the caller gave them.
Quads == [1..4 -> Points]

\* pts.sum(axis=1): x + y of one row.
RowSum(p) == p[1] + p[2]

\* np.diff(pts, axis=1): pts[:, 1] - pts[:, 0], that is y - x of one row.
RowDiff(p) == p[2] - p[1]

\* np.argmin: index of the first occurrence of the minimum.
ArgMin(f) ==
    CHOOSE i \in DOMAIN f :
        /\ \A j \in DOMAIN f : f[i] <= f[j]
        /\ \A j \in DOMAIN f : j < i => f[j] # f[i]

\* np.argmax: index of the first occurrence of the maximum.
ArgMax(f) ==
    CHOOSE i \in DOMAIN f :
        /\ \A j \in DOMAIN f : f[i] >= f[j]
        /\ \A j \in DOMAIN f : j < i => f[j] # f[i]

\* A plausible slip in _order_points: the difference taken as x - y.
OrderPointsXMinusY(pts) ==
    LET s == [i \in DOMAIN pts |-> RowSum(pts[i])]
        diff == [i \in DOMAIN pts |-> pts[i][1] - pts[i][2]]
    IN  << pts[ArgMin(s)], pts[ArgMin(diff)], pts[ArgMax(s)], pts[ArgMax(diff)] >>

\* DocumentScanner._order_points: rect[0] = pts[argmin(s)], rect[2] =
\* pts[argmax(s)], rect[1] = pts[argmin(diff)], rect[3] = pts[argmax(diff)].
\* Sequences are 1-based: rect[k] of the source is OrderPoints(pts)[k + 1].
OrderPoints(pts) ==
    LET s == [i \in DOMAIN pts |-> RowSum(pts[i])]
        diff == [i \in DOMAIN pts |-> RowDiff(pts[i])]
    IN  << pts[ArgMin(s)], pts[ArgMin(diff)], pts[ArgMax(s)], pts[ArgMax(diff)] >>

\* np.linalg.norm(a - b) squared: the squared length of the side a-b.
SqDist(a, b) == (a[1] - b[1]) * (a[1] - b[1]) + (a[2] - b[2]) * (a[2] - b[2])

Max(a, b) == IF a >= b THEN a ELSE b

Min(a, b) == IF a <= b THEN a ELSE b

RECURSIVE SqrtBetween(_, _, _)
\* The r in lo..hi with r*r <= n < (r+1)*(r+1), by bisection.
SqrtBetween(n, lo, hi) ==
    IF lo >= hi THEN lo
    ELSE LET mid == (lo + hi + 1) \div 2
         IN  IF mid * mid <= n THEN SqrtBetween(n, mid, hi)
             ELSE SqrtBetween(n, lo, mid - 1)

\* int(sqrt(n)) for 0 <= n < 2^31: the integer part of a side length.  The
\* search stops at 46340, the largest root whose square fits 32 bits.
ISqrt(n) == SqrtBetween(n, 0, Min(n, 46340))

\* Round n/d (n >= 0, d > 0) to the nearest integer, halves to the even
\* one: cvRound, as saturate_cast<uchar> rounds a float.
RoundHalfEven(n, d) ==
    LET q == n \div d
        r == n % d
    IN  IF 2 * r < d THEN q
        ELSE IF 2 * r > d THEN q + 1
        ELSE IF q % 2 = 0 THEN q ELSE q + 1

Abs(n) == IF n < 0 THEN -n ELSE n

\* ---------------------------------------------------------- the singleton
\* self.min_area_ratio = 0.05 and self.max_area_ratio = 0.98, in hundredths.
min_area_ratio == 5

max_area_ratio == 98

\* DocumentScanner.__init__: the attributes of a new scanner.
DocumentScanner ==
    [min_area_ratio |-> min_area_ratio, max_area_ratio |-> max_area_ratio]

\* Number of threads that call the scanner at the same time.
MaxThreads == 2

Threads == 1..MaxThreads

\* A thread that is not inside a call.
IdleCall ==
    [ pc |-> "idle", image |-> None, log |-> <<>>, all_quads |-> <<>>,
      best |-> None, refined |-> None, ret |-> None ]

\* --------------------------------------------------------------- actions
\* The state once the module is imported: `scanner = DocumentScanner()`, no
\* image loaded, no call made.
Init ==
    /\ op = "none"
    /\ args = <<>>
    /\ ret = <<>>
    /\ pc = "idle"
    /\ result = <<>>
    /\ heap = <<>>
    /\ scanner = DocumentScanner
    /\ calls = [t \in Threads |-> IdleCall]
    /\ locals = <<>>
    /\ published = <<>>

\* A call scanner._order_points(pts) on any four grid points.
CallOrderPoints ==
    /\ op = "none"
    /\ \E pts \in Quads :
        /\ op' = "_order_points"
        /\ args' = pts
        /\ ret' = OrderPoints(pts)
    /\ UNCHANGED <<pc, result, heap, scanner, calls, locals, published>>

\* A second call scanner._order_points(rect) on the quad the first call
\* returned, as perspective_transform makes on the quad that
\* detect_document_edges ordered.  ret keeps both results.
CallOrderPointsAgain ==
    /\ op = "_order_points"
    /\ op' = "_order_points twice"
    /\ ret' = [first |-> ret, second |-> OrderPoints(ret)]
    /\ UNCHANGED <<args, pc, result, heap, scanner, calls, locals, published>>

NextOrder == CallOrderPoints \/ CallOrderPointsAgain

SpecOrder == Init /\ [][NextOrder]_vars

\* ------------------------------------------------------------ claims C2, C3
\* The values of f over the four input rows.
RowValues(pts, F(_)) == {F(pts[i]) : i \in DOMAIN pts}

IsLeast(v, S) == v \in S /\ \A w \in S : v <= w

IsGreatest(v, S) == v \in S /\ \A w \in S : v >= w

XMinusY(p) == p[1] - p[2]

InputPoints == {args[i] : i \in DOMAIN args}

\* The sum half of the order invariant: index 0 is an input point with the
\* least x+y and index 2 an input point with the greatest x+y.
SumOrdered ==
    /\ ret[1] \in InputPoints
    /\ ret[3] \in InputPoints
    /\ IsLeast(RowSum(ret[1]), RowValues(args, RowSum))
    /\ IsGreatest(RowSum(ret[3]), RowValues(args, RowSum))

\* C2 as claimed: after _order_points, index 0 is the input point with minimum
\* x+y, index 2 the one with maximum x+y, index 1 the one with minimum x-y
\* and index 3 the one with maximum x-y.
C2_AsClaimed ==
    op = "_order_points" =>
        /\ SumOrdered
        /\ ret[2] \in InputPoints
        /\ ret[4] \in InputPoints
        /\ IsLeast(XMinusY(ret[2]), RowValues(args, XMinusY))
        /\ IsGreatest(XMinusY(ret[4]), RowValues(args, XMinusY))

\* C2 amended: after _order_points, index 0 is the input point with minimum
\* x+y, index 2 the one with maximum x+y, index 1 (top-right) the one with
\* MAXIMUM x-y (minimum y-x) and index 3 (bottom-left) the one with MINIMUM
\* x-y (maximum y-x).
C2_OrderInvariant ==
    op = "_order_points" =>
        /\ SumOrdered
        /\ ret[2] \in InputPoints
        /\ ret[4] \in InputPoints
        /\ IsGreatest(XMinusY(ret[2]), RowValues(args, XMinusY))
        /\ IsLeast(XMinusY(ret[4]), RowValues(args, XMinusY))

\* The shuffled rectangle of test_order_points, on the grid: it comes out as
\* top-left, top-right, bottom-right, bottom-left.
C2_Witness ==
    /\ op = "_order_points"
    /\ args = << <<2, 2>>, <<0, 0>>, <<0, 2>>, <<2, 0>> >>
    /\ ret = << <<0, 0>>, <<2, 0>>, <<2, 2>>, <<0, 2>> >>

\* z component of (b - a) x (c - b): the turn a quad makes at corner b.
Cross(a, b, c) ==
    (b[1] - a[1]) * (c[2] - b[2]) - (b[2] - a[2]) * (c[1] - b[1])

\* The quad turns strictly the same way at each of its four corners.
StrictlyConvex(q) ==
    LET turn == [i \in 1..4 |-> Cross(q[i], q[(i % 4) + 1], q[((i + 1) % 4) + 1])]
    IN  (\A i \in 1..4 : turn[i] > 0) \/ (\A i \in 1..4 : turn[i] < 0)

\* C3: _order_points is idempotent: ordering the quad it returned gives the
\* same quad again.  Stated on the case the claim names, the inputs whose
\* ordering is a convex quad (ties in x+y or x-y included).
C3_Idempotent ==
    (op = "_order_points twice" /\ StrictlyConvex(ret.first)) =>
        ret.second = ret.first

\* ------------------------------------------------- candidate selection
\* Longest candidate list handed to a direct _select_best_document call.
MaxPool == 3

\* Most candidates one detector proposes for one image.
MaxPerDetector == 1

\* Largest value of a candidate's score (scores are 0..MaxScore).
MaxScore == 1

\* detect_document_edges: max_dim, the largest side of the working image.
max_dim == 1000

\* Quadrilaterals the detectors propose, in working-image coordinates.
\* QuadA is in contour order starting at its bottom-right corner, the
\* others start at the top-left.
QuadA == << <<230, 400>>, <<10, 390>>, <<20, 30>>, <<220, 40>> >>

QuadB == << <<40, 60>>, <<200, 40>>, <<220, 300>>, <<60, 280>> >>

QuadC == << <<20, 20>>, <<240, 20>>, <<240, 240>>, <<20, 240>> >>

\* The candidates of a direct _select_best_document call.
PoolQuads == {QuadA, QuadB, QuadC}

\* The candidates the detectors find in an image.
DetQuads == {QuadA, QuadB}

\* _score_document(quad, ...) as a function of the quad: the image decides
\* the score of each candidate.
ScoreFunctions(S) == [S -> 0..MaxScore]

\* The sequences over S of length at most n.
SeqUpTo(S, n) == UNION {[1..k -> S] : k \in 0..n}

\* A plausible slip in the sort: a candidate is placed before the candidates
\* of equal score, so that the last of them ends up first.
InsertDescBeforeEqual(scored, e) ==
    LET before == {i \in 1..Len(scored) : scored[i][1] > e[1]}
        k == Cardinality(before)
    IN  SubSeq(scored, 1, k) \o <<e>> \o SubSeq(scored, k + 1, Len(scored))

\* One insertion of the stable descending sort: e goes behind every entry
\* whose score is not lower than its own.  scored is sorted by descending
\* score, so those entries are a prefix.
InsertDesc(scored, e) ==
    LET before == {i \in 1..Len(scored) : scored[i][1] >= e[1]}
        k == Cardinality(before)
    IN  SubSeq(scored, 1, k) \o <<e>> \o SubSeq(scored, k + 1, Len(scored))

RECURSIVE SortDesc(_)
\* scored.sort(key=lambda x: x[0], reverse=True): list.sort is stable, and
\* reverse=True keeps the entries of equal key in their original order.
SortDesc(scored) ==
    IF scored = <<>> THEN <<>>
    ELSE InsertDesc(SortDesc(SubSeq(scored, 1, Len(scored) - 1)),
                    scored[Len(scored)])

\* DocumentScanner._select_best_document(quads, image); score stands for
\* the image: score[q] is _score_document(q, ...).  Optional[quad].
SelectBestDocument(quads, score) ==
    IF quads = <<>> THEN None
    ELSE LET scored == [i \in 1..Len(quads) |-> <<score[quads[i]], quads[i]>>]
             sorted == SortDesc(scored)
         IN  IF sorted # <<>> THEN Some(sorted[1][2]) ELSE None

\* A direct call scanner._select_best_document(quads, image).
CallSelectBest ==
    /\ op = "none"
    /\ \E quads \in SeqUpTo(PoolQuads, MaxPool), score \in ScoreFunctions(PoolQuads) :
        /\ op' = "_select_best_document"
        /\ args' = [quads |-> quads, score |-> score]
        /\ ret' = SelectBestDocument(quads, score)
    /\ UNCHANGED <<pc, result, heap, scanner, calls, locals, published>>

NextSelect == CallSelectBest

SpecSelect == Init /\ [][NextSelect]_vars

\* ------------------------------------------------------------- claim C5
\* The scores of the pool's candidates.
PoolScores == {args.score[args.quads[i]] : i \in 1..Len(args.quads)}

\* The first position of the pool that holds a candidate of maximum score.
FirstBest ==
    CHOOSE i \in 1..Len(args.quads) :
        /\ IsGreatest(args.score[args.quads[i]], PoolScores)
        /\ \A j \in 1..(i - 1) : args.score[args.quads[j]] < args.score[args.quads[i]]

\* C5: _select_best_document returns a candidate of the pool whose score is
\* the maximum over the pool, the first such candidate in pool order when
\* several share the maximum, and nothing only for an empty pool.
C5_FirstMaximumWins ==
    op = "_select_best_document" =>
        /\ (ret = None) <=> (args.quads = <<>>)
        /\ args.quads # <<>> => ret = Some(args.quads[FirstBest])

\* Two different candidates tie for the maximum and the later one is not
\* the one returned.
C5_Witness ==
    /\ op = "_select_best_document"
    /\ Len(args.quads) = 3
    /\ args.quads[2] # args.quads[3]
    /\ args.score[args.quads[1]] < args.score[args.quads[2]]
    /\ args.score[args.quads[2]] = args.score[args.quads[3]]
    /\ ret = Some(args.quads[2])

\* ------------------------------------------------- perspective transform
\* Largest side of the small images handed to perspective_transform.
MaxSide == 3

\* The explicit target dimension used in direct calls.
TargetSize == 5

\* Python truth of an Optional[int]: `if target_width:` is false for None
\* and for 0.
Truthy(opt) == opt # None /\ opt[1] # 0

\* cv2.warpPerspective(image, matrix, dsize): the shape (width, height) of
\* the image it returns.  OpenCV allocates the destination as
\* dsize.empty() ? src.size() : dsize, so a dsize with a side <= 0 gives an
\* image of the source's size.
WarpPerspective(shape, dsize) ==
    IF dsize[1] <= 0 \/ dsize[2] <= 0 THEN shape ELSE dsize

\* A plausible slip in perspective_transform: the shorter of the two
\* opposite sides is taken.
PerspectiveTransformMinSide(shape, corners, target_width, target_height) ==
    LET ordered == OrderPoints(corners)
        tl == ordered[1]
        tr == ordered[2]
        br == ordered[3]
        bl == ordered[4]
        w == ISqrt(Min(SqDist(br, bl), SqDist(tr, tl)))
        h == ISqrt(Min(SqDist(tr, br), SqDist(tl, bl)))
        max_width == IF Truthy(target_width) THEN target_width[1] ELSE w
        max_height == IF Truthy(target_height) THEN target_height[1] ELSE h
    IN  [ ordered |-> ordered, max_width |-> max_width, max_height |-> max_height,
          dst |-> << <<0, 0>>, <<max_width - 1, 0>>,
                     <<max_width - 1, max_height - 1>>, <<0, max_height - 1>> >>,
          warped |-> WarpPerspective(shape, <<max_width, max_height>>) ]

\* A plausible slip in perspective_transform: the width is measured along
\* the vertical sides and the height along the horizontal ones.
PerspectiveTransformSwapped(shape, corners, target_width, target_height) ==
    LET ordered == OrderPoints(corners)
        tl == ordered[1]
        tr == ordered[2]
        br == ordered[3]
        bl == ordered[4]
        w == ISqrt(Max(SqDist(tr, br), SqDist(tl, bl)))
        h == ISqrt(Max(SqDist(br, bl), SqDist(tr, tl)))
        max_width == IF Truthy(target_width) THEN target_width[1] ELSE w
        max_height == IF Truthy(target_height) THEN target_height[1] ELSE h
    IN  [ ordered |-> ordered, max_width |-> max_width, max_height |-> max_height,
          dst |-> << <<0, 0>>, <<max_width - 1, 0>>,
                     <<max_width - 1, max_height - 1>>, <<0, max_height - 1>> >>,
          warped |-> WarpPerspective(shape, <<max_width, max_height>>) ]

\* DocumentScanner.perspective_transform(image, corners, target_width,
\* target_height) on an image of the given shape (width, height).  The record
\* keeps the locals ordered, max_width, max_height and dst, and the shape of
\* the returned image.  int(max(sqrt(a), sqrt(b))) is ISqrt(Max(a, b)).
PerspectiveTransform(shape, corners, target_width, target_height) ==
    LET ordered == OrderPoints(corners)
        tl == ordered[1]
        tr == ordered[2]
        br == ordered[3]
        bl == ordered[4]
        w == ISqrt(Max(SqDist(br, bl), SqDist(tr, tl)))
        h == ISqrt(Max(SqDist(tr, br), SqDist(tl, bl)))
        max_width == IF Truthy(target_width) THEN target_width[1] ELSE w
        max_height == IF Truthy(target_height) THEN target_height[1] ELSE h
    IN  [ ordered |-> ordered, max_width |-> max_width, max_height |-> max_height,
          dst |-> << <<0, 0>>, <<max_width - 1, 0>>,
                     <<max_width - 1, max_height - 1>>, <<0, max_height - 1>> >>,
          warped |-> WarpPerspective(shape, <<max_width, max_height>>) ]

\* The corners of the whole image, as every caller builds them when
\* detection fails: [[0,0],[width-1,0],[width-1,height-1],[0,height-1]].
FullImageCorners(shape) ==
    << <<0, 0>>, <<shape[1] - 1, 0>>,
       <<shape[1] - 1, shape[2] - 1>>, <<0, shape[2] - 1>> >>

\* Optional[int] target dimensions: absent, 0 and a positive size.
Targets == {None, Some(0), Some(TargetSize)}

\* Shapes (width, height) of the images of direct calls: every small size
\* and the 400-wide, 500-tall image of test_perspective_transform.
SmallShapes == (1..MaxSide) \X (1..MaxSide)

TransformShapes == SmallShapes \cup {<<400, 500>>}

\* A direct call scanner.perspective_transform(image, corners, tw, th) with
\* corners anywhere on the grid (manual corner overrides are arbitrary).
CallPerspectiveTransform ==
    /\ op = "none"
    /\ \E corners \in Quads, tw \in Targets, th \in Targets :
        LET shape == <<MaxCoord + 1, MaxCoord + 1>>
        IN  /\ op' = "perspective_transform"
            /\ args' = [shape |-> shape, corners |-> corners,
                        target_width |-> tw, target_height |-> th]
            /\ ret' = PerspectiveTransform(shape, corners, tw, th)
    /\ UNCHANGED <<pc, result, heap, scanner, calls, locals, published>>

\* A call scanner.perspective_transform(image, corners) on the image's own
\* corners, the fallback of the callers.
CallTransformOwnCorners ==
    /\ op = "none"
    /\ \E shape \in TransformShapes :
        /\ op' = "perspective_transform"
        /\ args' = [shape |-> shape, corners |-> FullImageCorners(shape),
                    target_width |-> None, target_height |-> None]
        /\ ret' = PerspectiveTransform(shape, FullImageCorners(shape), None, None)
    /\ UNCHANGED <<pc, result, heap, scanner, calls, locals, published>>

NextTransform == CallPerspectiveTransform \/ CallTransformOwnCorners

SpecTransform == Init /\ [][NextTransform]_vars

\* ------------------------------------------------------ claims C6, C7, C8
\* w is the integer part of the square root of n.
IsFloorOfRoot(w, n) == w >= 0 /\ w * w <= n /\ n < (w + 1) * (w + 1)

\* Squared length of the longer of the sides a-b and c-d.
LongerSideSq(a, b, c, d) == Max(SqDist(a, b), SqDist(c, d))

\* Squared lengths the width and the height are measured from, on the
\* re-ordered corners (1 = TL, 2 = TR, 3 = BR, 4 = BL).
WidthSq == LongerSideSq(ret.ordered[3], ret.ordered[4], ret.ordered[2], ret.ordered[1])

HeightSq == LongerSideSq(ret.ordered[2], ret.ordered[3], ret.ordered[1], ret.ordered[4])

\* C6 as claimed: the output size of perspective_transform (max_width,
\* max_height, the size it asks the warp for) is floor(max(|BR-BL|, |TR-TL|))
\* by floor(max(|TR-BR|, |TL-BL|)) on the re-ordered corners, unless a target
\* width or height is supplied, and then that dimension has the supplied
\* value.
C6_AsClaimed ==
    op = "perspective_transform" =>
        /\ IF args.target_width # None
           THEN ret.max_width = args.target_width[1]
           ELSE IsFloorOfRoot(ret.max_width, WidthSq)
        /\ IF args.target_height # None
           THEN ret.max_height = args.target_height[1]
           ELSE IsFloorOfRoot(ret.max_height, HeightSq)

\* C6 amended: perspective_transform asks the warp for an output that is
\* floor(max(|BR-BL|, |TR-TL|)) wide and floor(max(|TR-BR|, |TL-BL|)) tall on
\* the re-ordered corners, unless a NON-ZERO target width or height is
\* supplied, and then that dimension has the supplied value (a target of 0
\* counts as not supplied); the returned image has the size asked for
\* whenever both dimensions asked for are at least 1.
C6_OutputSize ==
    op = "perspective_transform" =>
        /\ IF args.target_width # None /\ args.target_width # Some(0)
           THEN ret.max_width = args.target_width[1]
           ELSE IsFloorOfRoot(ret.max_width, WidthSq)
        /\ IF args.target_height # None /\ args.target_height # Some(0)
           THEN ret.max_height = args.target_height[1]
           ELSE IsFloorOfRoot(ret.max_height, HeightSq)
        /\ (ret.max_width >= 1 /\ ret.max_height >= 1) =>
               ret.warped = <<ret.max_width, ret.max_height>>

\* A skewed quad, a supplied width and a height of 0: the width is the
\* target and the height is measured on the longer vertical side.
C6_Witness ==
    /\ op = "perspective_transform"
    /\ args.corners = << <<0, 2>>, <<1, 0>>, <<0, 0>>, <<2, 2>> >>
    /\ args.target_width = Some(TargetSize)
    /\ args.target_height = Some(0)
    /\ ret.warped = <<TargetSize, 2>>

\* C7: for every quad passed to perspective_transform, degenerate ones
\* included, the output dimensions are clamped to at least 1x1 (callers
\* pass no target dimensions).
C7_ClampedToOne ==
    (/\ op = "perspective_transform"
     /\ args.target_width = None
     /\ args.target_height = None) =>
        /\ ret.max_width >= 1
        /\ ret.max_height >= 1

\* C8: perspective_transform applied to the own corners of a WxH image
\* (W, H >= 1) returns an image whose width and height differ from W and H
\* by at most 1; for the 400-wide, 500-tall image it is about 400 wide and
\* 499 tall (within 1 pixel).
C8_OwnCorners ==
    (/\ op = "perspective_transform"
     /\ args.corners = FullImageCorners(args.shape)
     /\ args.target_width = None
     /\ args.target_height = None) =>
        /\ ret.warped[1] - args.shape[1] \in -1..1
        /\ ret.warped[2] - args.shape[2] \in -1..1
        /\ args.shape = <<400, 500>> =>
               /\ ret.warped[1] - 400 \in -1..1
               /\ ret.warped[2] - 499 \in -1..1

\* The image of test_perspective_transform comes out 399 wide and 499 tall.
C8_Witness ==
    /\ op = "perspective_transform"
    /\ args.shape = <<400, 500>>
    /\ args.corners = FullImageCorners(<<400, 500>>)
    /\ ret.warped = <<399, 499>>

\* ------------------------------------------------------------ detection
\* Shapes (width, height) of the photographs handed to detection: one that
\* is not resized, one wider and one taller than max_dim.
DetectShapes == {<<400, 500>>, <<2000, 1000>>, <<1000, 1500>>}

NoShift == << <<0, 0>>, <<0, 0>>, <<0, 0>>, <<0, 0>> >>

\* What cv2.cornerSubPix does in _refine_corners: it raises, or it moves
\* each corner inside its search window (here: not at all, or two of them).
RefineOutcomes ==
    { [raises |-> TRUE, shift |-> NoShift],
      [raises |-> FALSE, shift |-> NoShift],
      [raises |-> FALSE, shift |-> << <<4, -2>>, <<0, 0>>, <<-2, 6>>, <<0, 0>> >>] }

\* An image, as far as detection depends on it: its shape, what each of the
\* three detectors finds in it, the score _score_document gives each
\* candidate and what corner refinement does.
Images ==
    [ shape : DetectShapes,
      contour : SeqUpTo(DetQuads, MaxPerDetector),
      hough : SeqUpTo(DetQuads, MaxPerDetector),
      bright : SeqUpTo(DetQuads, MaxPerDetector),
      score : ScoreFunctions(DetQuads),
      refine : RefineOutcomes ]

\* A plausible slip in detect_document_edges: the scale is not capped at 1.0.
ScaleUncapped(shape) == <<max_dim, Max(shape[1], shape[2])>>

\* scale = min(max_dim / original_width, max_dim / original_height, 1.0), as
\* the fraction <<numerator, denominator>> = max_dim / max(W, H, max_dim).
Scale(shape) == <<max_dim, Max(Max(shape[1], shape[2]), max_dim)>>

\* One coordinate of ordered / scale.  The shapes and candidates of the model
\* make every quotient a whole number.
ScaleBack(x, scale) == (x * scale[2]) \div scale[1]

\* A plausible slip in _refine_corners: the except branch hands back the
\* array the failed refinement was to fill, not the quad.
RefineCornersLosesQuad(image, quad) ==
    IF image.refine.raises THEN [i \in 1..4 |-> <<0, 0>>]
    ELSE [i \in 1..4 |-> << quad[i][1] + image.refine.shift[i][1],
                            quad[i][2] + image.refine.shift[i][2] >>]

\* DocumentScanner._refine_corners(img, quad): the refined corners, or the
\* quad itself when cv2.cornerSubPix raises.
RefineCorners(image, quad) ==
    IF image.refine.raises THEN quad
    ELSE [i \in 1..4 |-> << quad[i][1] + image.refine.shift[i][1],
                            quad[i][2] + image.refine.shift[i][2] >>]

\* The shape of `resized`: cv2.resize(image, None, fx=scale, fy=scale) gives
\* (round(width * scale), round(height * scale)) when scale < 1.0, and
\* image.copy() has the shape of the image otherwise.
Resized(shape) ==
    LET scale == Scale(shape)
    IN  IF scale[1] < scale[2]
        THEN << RoundHalfEven(shape[1] * scale[1], scale[2]),
                RoundHalfEven(shape[2] * scale[1], scale[2]) >>
        ELSE shape

\* cv2.contourArea(approx), doubled: the shoelace sum over the corners.
TwiceContourArea(quad) ==
    LET term(a, b) == a[1] * b[2] - b[1] * a[2]
    IN  Abs( term(quad[1], quad[2]) + term(quad[2], quad[3])
               + term(quad[3], quad[4]) + term(quad[4], quad[1]) )

\* self.min_area_ratio * img_area < area < self.max_area_ratio * img_area, for
\* the attributes self of the scanner (ratios in hundredths, areas doubled).
AreaCheck(self, quad, shape) ==
    LET img_area == shape[1] * shape[2]
    IN  /\ 2 * self.min_area_ratio * img_area < 100 * TwiceContourArea(quad)
        /\ 100 * TwiceContourArea(quad) < 2 * self.max_area_ratio * img_area

\* Those of the four-point shapes a detector comes across in `resized` that
\* pass its area check, in the order it comes across them.
AreaChecked(found, shape) ==
    SelectSeq(found, LAMBDA quad : AreaCheck(scanner, quad, Resized(shape)))

\* self._find_contour_quads(resized), self._find_hough_quads(resized) and
\* self._find_bright_regions(resized): the candidates each detector returns.
\* Each reads self.min_area_ratio and self.max_area_ratio of the singleton.
FindContourQuads(image) == AreaChecked(image.contour, image.shape)

FindHoughQuads(image) == AreaChecked(image.hough, image.shape)

FindBrightRegions(image) == AreaChecked(image.bright, image.shape)

\* A plausible slip in detect_document_edges: the corners are returned as
\* refined, without the final _order_points.
DetectDocumentEdgesUnordered(image) ==
    LET scale == Scale(image.shape)
        all_quads == FindContourQuads(image) \o FindHoughQuads(image)
                        \o FindBrightRegions(image)
        best == SelectBestDocument(all_quads, image.score)
        refined == IF best # None THEN RefineCorners(image, best[1]) ELSE None
    IN  [ scale |-> scale, all_quads |-> all_quads, best |-> best,
          refined |-> refined, ordered |-> refined,
          returned |-> IF all_quads = <<>> \/ best = None THEN None
                       ELSE [i \in 1..4 |-> << ScaleBack(refined[i][1], scale),
                                               ScaleBack(refined[i][2], scale) >>] ]

\* A plausible slip in detect_document_edges: a best candidate that scores
\* nothing is treated as no detection.
DetectDocumentEdgesViability(image) ==
    LET scale == Scale(image.shape)
        all_quads == FindContourQuads(image) \o FindHoughQuads(image)
                        \o FindBrightRegions(image)
        best == SelectBestDocument(all_quads, image.score)
        refined == IF best # None THEN RefineCorners(image, best[1]) ELSE None
        ordered == IF best # None THEN OrderPoints(refined) ELSE None
    IN  [ scale |-> scale, all_quads |-> all_quads, best |-> best,
          refined |-> refined, ordered |-> ordered,
          returned |-> IF all_quads = <<>> \/ best = None
                          \/ image.score[best[1]] = 0 THEN None
                       ELSE [i \in 1..4 |-> << ScaleBack(ordered[i][1], scale),
                                               ScaleBack(ordered[i][2], scale) >>] ]

\* DocumentScanner.detect_document_edges(image).  The record keeps the locals
\* scale, all_quads, best, refined and ordered (None where the code does not
\* reach them) and the value returned: None or (ordered / scale).
DetectDocumentEdges(image) ==
    LET scale == Scale(image.shape)
        all_quads == FindContourQuads(image) \o FindHoughQuads(image)
                        \o FindBrightRegions(image)
        best == SelectBestDocument(all_quads, image.score)
        refined == IF best # None THEN RefineCorners(image, best[1]) ELSE None
        ordered == IF best # None THEN OrderPoints(refined) ELSE None
    IN  [ scale |-> scale, all_quads |-> all_quads, best |-> best,
          refined |-> refined, ordered |-> ordered,
          returned |-> IF all_quads = <<>> \/ best = None THEN None
                       ELSE [i \in 1..4 |-> << ScaleBack(ordered[i][1], scale),
                                               ScaleBack(ordered[i][2], scale) >>] ]

\* A direct call scanner.detect_document_edges(image).
CallDetectDocumentEdges ==
    /\ op = "none"
    /\ \E image \in Images :
        /\ op' = "detect_document_edges"
        /\ args' = [image |-> image]
        /\ ret' = DetectDocumentEdges(image)
    /\ UNCHANGED <<pc, result, heap, scanner, calls, locals, published>>

\* -------------------------------------------------------------- callers
\* Corner overrides a request can carry: none, a plausible quad and a
\* degenerate one (callers do not validate them).
ManualCorners ==
    { None,
      Some(<< <<10, 10>>, <<300, 20>>, <<310, 400>>, <<20, 390>> >>),
      Some(<< <<5, 5>>, <<5, 5>>, <<5, 5>>, <<5, 5>> >>) }

\* confidence = 0.85 of the detect endpoint, in hundredths.
HighConfidence == 85

\* The corners a processing caller uses: the request's corners when it has
\* them, else the detected ones, else the corners of the whole image; then
\* scanner.perspective_transform(image, corners).
ProcessDocument(image, corners) ==
    LET detection == IF corners # None THEN None
                     ELSE Some(DetectDocumentEdges(image))
        used == IF corners # None THEN corners[1]
                ELSE IF detection[1].returned = None
                     THEN FullImageCorners(image.shape)
                     ELSE detection[1].returned
    IN  [ detection |-> detection, corners |-> used, confidence |-> None,
          transform |-> Some(PerspectiveTransform(image.shape, used, None, None)) ]

\* POST /api/scan/detect/{uuid}: detection, the full-image fallback and
\* the confidence reported (in hundredths).
DetectEndpoint ==
    /\ op = "none"
    /\ \E image \in Images :
        LET detection == DetectDocumentEdges(image)
            failed == detection.returned = None
        IN  /\ op' = "POST /detect"
            /\ args' = [image |-> image, corners |-> None]
            /\ ret' = [ detection |-> Some(detection),
                        corners |-> IF failed THEN FullImageCorners(image.shape)
                                    ELSE detection.returned,
                        confidence |-> IF failed THEN Some(0)
                                       ELSE Some(HighConfidence),
                        transform |-> None ]
    /\ UNCHANGED <<pc, result, heap, scanner, calls, locals, published>>

\* POST /api/scan/process.
ProcessEndpoint ==
    /\ op = "none"
    /\ \E image \in Images, corners \in ManualCorners :
        /\ op' = "POST /process"
        /\ args' = [image |-> image, corners |-> corners]
        /\ ret' = ProcessDocument(image, corners)
    /\ UNCHANGED <<pc, result, heap, scanner, calls, locals, published>>

\* POST /api/scan/bulk-process, for one item of the request.
BulkEndpoint ==
    /\ op = "none"
    /\ \E image \in Images, corners \in ManualCorners :
        /\ op' = "POST /bulk-process"
        /\ args' = [image |-> image, corners |-> corners]
        /\ ret' = ProcessDocument(image, corners)
    /\ UNCHANGED <<pc, result, heap, scanner, calls, locals, published>>

\* The background task process_single_document.
ProcessSingleDocument ==
    /\ op = "none"
    /\ \E image \in Images, corners \in ManualCorners :
        /\ op' = "process_single_document"
        /\ args' = [image |-> image, corners |-> corners]
        /\ ret' = ProcessDocument(image, corners)
    /\ UNCHANGED <<pc, result, heap, scanner, calls, locals, published>>

\* The background task process_bulk_documents, for one document of the list.
ProcessBulkDocuments ==
    /\ op = "none"
    /\ \E image \in Images, corners \in ManualCorners :
        /\ op' = "process_bulk_documents"
        /\ args' = [image |-> image, corners |-> corners]
        /\ ret' = ProcessDocument(image, corners)
    /\ UNCHANGED <<pc, result, heap, scanner, calls, locals, published>>

NextDetect ==
    \/ CallDetectDocumentEdges
    \/ DetectEndpoint
    \/ ProcessEndpoint
    \/ BulkEndpoint
    \/ ProcessSingleDocument
    \/ ProcessBulkDocuments

SpecDetect == Init /\ [][NextDetect]_vars

\* ---------------------------------------------------------- claims C1, C4
Callers ==
    { "POST /detect", "POST /process", "POST /bulk-process",
      "process_single_document", "process_bulk_documents" }

\* The three detectors together found no candidate in the image.
NoCandidates ==
    /\ args.image.contour = <<>>
    /\ args.image.hough = <<>>
    /\ args.image.bright = <<>>

\* q is exactly four points of two integer coordinates each.
IsFourPoints(q) ==
    /\ DOMAIN q = 1..4
    /\ \A i \in 1..4 : DOMAIN q[i] = 1..2 /\ q[i][1] \in Int /\ q[i][2] \in Int

\* Index 0 has the least and index 2 the greatest x+y of the four points.
SumInvariant(q) ==
    \A i \in 1..4 : RowSum(q[1]) <= RowSum(q[i]) /\ RowSum(q[i]) <= RowSum(q[3])

\* C1: detect_document_edges returns None or exactly 4 points of which
\* index 0 has the minimum and index 2 the maximum x+y; nothing else.
C1_FourOrderedPointsOrNone ==
    op = "detect_document_edges" =>
        \/ ret.returned = None
        \/ IsFourPoints(ret.returned) /\ SumInvariant(ret.returned)

\* A detection on a resized image in which the refined corners were not in
\* order: the returned quad is ordered and scaled back.
C1_Witness ==
    /\ op = "detect_document_edges"
    /\ args.image.shape = <<1000, 1500>>
    /\ ret.best = Some(QuadA)
    /\ ~args.image.refine.raises
    /\ ret.refined # QuadA
    /\ ret.ordered # ret.refined
    /\ ret.returned # None
    /\ ret.returned # ret.ordered

\* The division by scale is exact for every image of the model.
ScaleBackExact ==
    (op = "detect_document_edges" /\ ret.returned # None) =>
        \A i \in 1..4 : \A k \in 1..2 :
            ret.returned[i][k] * ret.scale[1] = ret.ordered[i][k] * ret.scale[2]

\* C4: when the detectors produce no candidate, detect_document_edges returns
\* None, and then every caller that detects uses the corners of the whole
\* image; the detect endpoint reports confidence 0.0 in exactly that case
\* and a non-zero confidence otherwise.
C4_FallbackOnNoCandidates ==
    /\ (op = "detect_document_edges" /\ NoCandidates) => ret.returned = None
    /\ (op \in Callers /\ args.corners = None) =>
        /\ NoCandidates => ret.detection[1].returned = None
        /\ NoCandidates => ret.corners = FullImageCorners(args.image.shape)
    /\ op = "POST /detect" =>
        /\ ret.confidence # None
        /\ (ret.confidence = Some(0)) <=> NoCandidates

\* A background task on an image without candidates falls back to the whole
\* image and transforms it.
C4_Witness ==
    /\ op = "process_bulk_documents"
    /\ args.corners = None
    /\ NoCandidates
    /\ args.image.shape = <<2000, 1000>>
    /\ ret.corners = << <<0, 0>>, <<1999, 0>>, <<1999, 999>>, <<0, 999>> >>
    /\ ret.transform[1].warped = <<1999, 999>>

\* ---------------------------------------------------------- enhancement
\* ScanSettings.filter_mode: pattern ^(color|grayscale|bw|scan)$.
Modes == {"color", "grayscale", "bw", "scan"}

\* Values of ScanSettings.brightness and ScanSettings.contrast (-100..100).
Levels == {-100, -50, -1, 0, 1, 50, 100}

\* The arguments of an enhance_scan call on a 3-channel image.
EnhanceArgs ==
    [mode : Modes, brightness : Levels, contrast : Levels, auto_enhance : BOOLEAN]

\* A plausible slip in enhance_scan: auto-enhance is not skipped for bw.
AutoEnhanceRunsForBw(a) == a.auto_enhance

\* enhance_scan: `if auto_enhance and mode != "bw"`.
AutoEnhanceRuns(a) == a.auto_enhance /\ a.mode # "bw"

\* enhance_scan: `if brightness != 0 or contrast != 0`.
AdjustRuns(a) == a.brightness # 0 \/ a.contrast # 0

\* A plausible slip in enhance_scan: the scan mode is given the conversion of
\* the bw mode.
ModeConversionScan(a) ==
    IF a.mode = "grayscale" THEN <<"cvtColor BGR2GRAY", "cvtColor GRAY2BGR">>
    ELSE IF a.mode \in {"bw", "scan"}
         THEN <<"cvtColor BGR2GRAY", "_clean_document_binarization",
                "cvtColor GRAY2BGR">>
         ELSE <<>>

\* enhance_scan: the mode-specific conversion of a 3-channel result, as the
\* filters it applies (none for color and scan).
ModeConversion(a) ==
    IF a.mode = "grayscale" THEN <<"cvtColor BGR2GRAY", "cvtColor GRAY2BGR">>
    ELSE IF a.mode = "bw"
         THEN <<"cvtColor BGR2GRAY", "_clean_document_binarization",
                "cvtColor GRAY2BGR">>
         ELSE <<>>

\* scanner.enhance_scan(image, mode, brightness, contrast, auto_enhance) is
\* entered: result = image.copy().
EnhanceScanEnter ==
    /\ op = "none"
    /\ \E a \in EnhanceArgs :
        /\ op' = "enhance_scan"
        /\ args' = a
    /\ ret' = None
    /\ result' = <<>>
    /\ pc' = "auto_enhance"
    /\ UNCHANGED <<heap, scanner, calls, locals, published>>

\* if auto_enhance and mode != "bw": result = self._auto_enhance(result)
EnhanceScanAutoEnhance ==
    /\ pc = "auto_enhance"
    /\ result' = IF AutoEnhanceRuns(args) THEN Append(result, "_auto_enhance")
                 ELSE result
    /\ pc' = "brightness_contrast"
    /\ UNCHANGED <<op, args, ret, heap, scanner, calls, locals, published>>

\* if brightness != 0 or contrast != 0:
\*     result = self._adjust_brightness_contrast(result, brightness, contrast)
EnhanceScanAdjust ==
    /\ pc = "brightness_contrast"
    /\ result' = IF AdjustRuns(args)
                 THEN Append(result, "_adjust_brightness_contrast")
                 ELSE result
    /\ pc' = "mode"
    /\ UNCHANGED <<op, args, ret, heap, scanner, calls, locals, published>>

\* if mode == "grayscale": ... elif mode == "bw": ...
EnhanceScanMode ==
    /\ pc = "mode"
    /\ result' = result \o ModeConversion(args)
    /\ pc' = "return"
    /\ UNCHANGED <<op, args, ret, heap, scanner, calls, locals, published>>

\* return result
EnhanceScanReturn ==
    /\ pc = "return"
    /\ ret' = Some(result)
    /\ pc' = "done"
    /\ UNCHANGED <<op, args, result, heap, scanner, calls, locals, published>>

NextEnhance ==
    \/ EnhanceScanEnter
    \/ EnhanceScanAutoEnhance
    \/ EnhanceScanAdjust
    \/ EnhanceScanMode
    \/ EnhanceScanReturn

SpecEnhance == Init /\ [][NextEnhance]_vars

\* ------------------------------------------------------------- claim C9
\* The stage of the pipeline a filter belongs to.
StageOf(f) ==
    IF f = "_auto_enhance" THEN 1
    ELSE IF f = "_adjust_brightness_contrast" THEN 2
    ELSE 3

\* How often filter f has been applied to result.
Applied(f) == Cardinality({i \in 1..Len(result) : result[i] = f})

\* C9: enhance_scan applies its stages in the order auto-enhance, then
\* brightness/contrast, then mode-specific conversion; auto-enhance runs
\* exactly when auto_enhance is set and the mode is not bw, brightness/contrast
\* exactly when brightness or contrast is non-zero.
C9_StageOrder ==
    op = "enhance_scan" =>
        /\ \A i, j \in 1..Len(result) : i < j => StageOf(result[i]) <= StageOf(result[j])
        /\ Applied("_auto_enhance") <= 1
        /\ Applied("_adjust_brightness_contrast") <= 1
        /\ pc = "done" =>
            /\ ret = Some(result)
            /\ (Applied("_auto_enhance") = 1)
                  <=> (args.auto_enhance /\ args.mode # "bw")
            /\ (Applied("_adjust_brightness_contrast") = 1)
                  <=> (args.brightness # 0 \/ args.contrast # 0)
            /\ (\E i \in 1..Len(result) : StageOf(result[i]) = 3)
                  <=> args.mode \in {"grayscale", "bw"}

\* A grayscale scan with auto-enhance and a brightness change went through
\* all three stages, in order.
C9_Witness ==
    /\ op = "enhance_scan"
    /\ pc = "done"
    /\ args.mode = "grayscale"
    /\ args.brightness = 50
    /\ result = << "_auto_enhance", "_adjust_brightness_contrast",
                   "cvtColor BGR2GRAY", "cvtColor GRAY2BGR" >>

\* ------------------------------------------------- brightness and contrast
\* alpha * v + beta in hundredths, for alpha = 1 + contrast / 100.0 and
\* beta = brightness * 2.55.
LinearHundredths(v, brightness, contrast) == (100 + contrast) * v + 255 * brightness

\* cv2.convertScaleAbs: saturate_cast<uchar>(|alpha * v + beta|), on the
\* value in hundredths.
ConvertScaleAbs(hundredths) == Min(RoundHalfEven(Abs(hundredths), 100), 255)

\* DocumentScanner._adjust_brightness_contrast, for one channel value.
AdjustBrightnessContrast(v, brightness, contrast) ==
    ConvertScaleAbs(LinearHundredths(v, brightness, contrast))

\* A call scanner._adjust_brightness_contrast(image, brightness, contrast),
\* followed for one 8-bit channel value of the image.
CallAdjustBrightnessContrast ==
    /\ op = "none"
    /\ \E v \in 0..255, b \in Levels, c \in Levels :
        /\ op' = "_adjust_brightness_contrast"
        /\ args' = [v |-> v, brightness |-> b, contrast |-> c]
        /\ ret' = AdjustBrightnessContrast(v, b, c)
    /\ UNCHANGED <<pc, result, heap, scanner, calls, locals, published>>

NextAdjust == CallAdjustBrightnessContrast

SpecAdjust == Init /\ [][NextAdjust]_vars

\* ------------------------------------------------------------ claim C10
\* C10: _adjust_brightness_contrast outputs clamp((1 + c/100) v + 2.55 b, 0,
\* 255) rounded to an integer (to either neighbouring integer); a negative
\* linear result comes out as 0.
C10_ClampedLinear ==
    op = "_adjust_brightness_contrast" =>
        LET linear == LinearHundredths(args.v, args.brightness, args.contrast)
            clamped == Max(0, Min(linear, 25500))
        IN  /\ ret \in 0..255
            /\ 100 * ret - clamped \in -99..99
            /\ linear < 0 => ret = 0

\* ------------------------------------------- brightness of a whole image
\* Largest number of channel values of an image followed.
MaxPixels == 2

\* Channel values of the images followed: black, nearly black, dark, the
\* mid-grey of the test, bright, white.
PixelValues == {0, 1, 100, 128, 200, 255}

\* The images: non-empty arrays of channel values.
PixelImages == UNION {[1..n -> PixelValues] : n \in 1..MaxPixels}

\* DocumentScanner._adjust_brightness_contrast on every channel value of an
\* image (cv2.convertScaleAbs works element by element).
AdjustImage(image, brightness, contrast) ==
    [i \in DOMAIN image |-> AdjustBrightnessContrast(image[i], brightness, contrast)]

\* Two calls of scanner._adjust_brightness_contrast on the same image with
\* contrast 0 and two brightness values, as test_adjust_brightness_contrast
\* makes them.
CallAdjustBrightnessTwice ==
    /\ op = "none"
    /\ \E image \in PixelImages, b1 \in Levels, b2 \in Levels :
        /\ op' = "_adjust_brightness_contrast twice"
        /\ args' = [image |-> image, first |-> b1, second |-> b2]
        /\ ret' = [first |-> AdjustImage(image, b1, 0),
                   second |-> AdjustImage(image, b2, 0)]
    /\ UNCHANGED <<pc, result, heap, scanner, calls, locals, published>>

NextBrightness == CallAdjustBrightnessTwice

SpecBrightness == Init /\ [][NextBrightness]_vars

\* ------------------------------------------------------------ claim C11
RECURSIVE SumOf(_)
\* The sum of the channel values of an image: its mean times its size.
SumOf(image) ==
    IF image = <<>> THEN 0 ELSE image[1] + SumOf(Tail(image))

\* No channel value of the image reaches the end of the 0..255 range under
\* the brightness.
Unclamped(image, brightness) ==
    \A i \in DOMAIN image :
        LinearHundredths(image[i], brightness, 0) \in 0..25500

\* C11: with contrast 0 the mean of the output is monotone in brightness: a
\* larger brightness never gives a smaller mean, and gives a strictly larger
\* one when no value is clamped; a negative brightness gives a mean below the
\* source's for every image that is not all black.
C11_MeanMonotone ==
    op = "_adjust_brightness_contrast twice" =>
        /\ args.first < args.second =>
            /\ SumOf(ret.second) >= SumOf(ret.first)
            /\ (Unclamped(args.image, args.first) /\ Unclamped(args.image, args.second))
                  => SumOf(ret.second) > SumOf(ret.first)
        /\ (args.first < 0 /\ \E i \in DOMAIN args.image : args.image[i] # 0)
              => SumOf(ret.first) < SumOf(args.image)

\* ------------------------------------------------------- Python floats
\* A positive Python float (IEEE 754 binary64) is a record [limbs, exp]: its
\* 53-bit significand is written in base 2^13 as a leading 1 followed by
\* four limbs, most significant first, and exp is the exponent of the
\* leading bit; the value is limbs * 2^(exp - 52).
LimbBits == 13

Base == 8192

Limbs == 4

\* Bits of the significand.
Precision == 1 + Limbs * LimbBits

RECURSIVE BinaryOf(_)
\* The binary digits of a natural number, leading digit first.
BinaryOf(n) ==
    IF n = 0 THEN <<>> ELSE Append(BinaryOf(n \div 2), n % 2)

RECURSIVE Pow2(_)
Pow2(k) == IF k = 0 THEN 1 ELSE 2 * Pow2(k - 1)

RECURSIVE DoublingsUntil(_, _)
\* The least k with n * 2^k >= d.
DoublingsUntil(n, d) ==
    IF n >= d THEN 0 ELSE 1 + DoublingsUntil(2 * n, d)

RECURSIVE Increment(_)
\* The significand one unit in the last place above: a carry runs up the
\* limbs, and the leading limb takes what is left of it.
Increment(limbs) ==
    IF Len(limbs) = 1 THEN << limbs[1] + 1 >>
    ELSE IF limbs[Len(limbs)] + 1 < Base
         THEN [limbs EXCEPT ![Len(limbs)] = limbs[Len(limbs)] + 1]
         ELSE Append(Increment(SubSeq(limbs, 1, Len(limbs) - 1)), 0)

\* Rounding to nearest, ties to even: the significand kept when lost out of
\* unit was cut off below its last place.
RoundToEven(limbs, lost, unit) ==
    IF 2 * lost > unit \/ (2 * lost = unit /\ limbs[Len(limbs)] % 2 = 1)
    THEN Increment(limbs) ELSE limbs

\* The float with the given significand and exponent; a significand that
\* rounding carried up to 2^53 becomes 2^52 with the next exponent.
Normalised(limbs, exp) ==
    IF limbs[1] = 2 THEN [limbs |-> <<1>> \o [i \in 1..Limbs |-> 0], exp |-> exp + 1]
    ELSE [limbs |-> limbs, exp |-> exp]

RECURSIVE Remainder(_, _, _)
\* What long division of num by den (den <= num < 2 den) leaves after the
\* units digit and i limbs of the quotient.
Remainder(num, den, i) ==
    IF i = 0 THEN num - den ELSE (Remainder(num, den, i - 1) * Base) % den

\* n / d for Python ints n, d >= 1: the float nearest to the quotient.
TrueDivide(n, d) ==
    LET exp == IF n >= d THEN Len(BinaryOf(n \div d)) - 1
               ELSE 0 - DoublingsUntil(n, d)
        num == IF exp >= 0 THEN n ELSE n * Pow2(0 - exp)
        den == IF exp >= 0 THEN d * Pow2(exp) ELSE d
        quotient == <<1>> \o [i \in 1..Limbs |->
                                (Remainder(num, den, i - 1) * Base) \div den]
    IN  Normalised(RoundToEven(quotient, Remainder(num, den, Limbs), den), exp)

RECURSIVE TimesInt(_, _, _)
\* limbs * n + carry, the leading limb keeping all that is carried into it.
TimesInt(limbs, n, carry) ==
    IF Len(limbs) = 1 THEN << limbs[1] * n + carry >>
    ELSE LET t == limbs[Len(limbs)] * n + carry
         IN  Append(TimesInt(SubSeq(limbs, 1, Len(limbs) - 1), n, t \div Base),
                    t % Base)

\* n * x for a Python int 1 <= n < Base and a float x: the float nearest to
\* the product.  The product is shifted right until its leading limb is 1.
MultiplyByInt(n, x) ==
    LET product == TimesInt(x.limbs, n, 0)
        shift == Len(BinaryOf(product[1])) - 1
        unit == Pow2(shift)
        shifted == [i \in 1..(Limbs + 1) |->
                      (product[i] \div unit)
                        + IF i = 1 THEN 0
                          ELSE (product[i - 1] % unit) * (Base \div unit)]
    IN  Normalised(RoundToEven(shifted, product[Limbs + 1] % unit, unit),
                   x.exp + shift)

\* x < y for floats.
FloatLess(x, y) ==
    \/ x.exp < y.exp
    \/ /\ x.exp = y.exp
       /\ \E i \in 1..(Limbs + 1) :
            /\ x.limbs[i] < y.limbs[i]
            /\ \A j \in 1..(i - 1) : x.limbs[j] = y.limbs[j]

\* min(x, y) of Python: the first argument unless the second is smaller.
FloatMin(x, y) == IF FloatLess(y, x) THEN y ELSE x

\* int(x): the integer part of a float below 2^27.
IntOfFloat(x) ==
    IF x.exp < 0 THEN 0
    ELSE IF x.exp <= LimbBits
         THEN (x.limbs[1] * Base + x.limbs[2]) \div Pow2(LimbBits - x.exp)
         ELSE ((x.limbs[1] * Base + x.limbs[2]) * Base + x.limbs[3])
                 \div Pow2(2 * LimbBits - x.exp)

\* ------------------------------------------------------------ thumbnails
\* max_size: int = 300, the default every caller uses.
DefaultMaxSize == 300

\* Widths and heights of the source images followed.
ThumbnailSides == {1, 2, 3, 50, 100, 281, 300, 562, 800, 1000}

ThumbnailShapes == ThumbnailSides \X ThumbnailSides

\* Values of max_size followed.
MaxSizes == {1, 2, 150, DefaultMaxSize}

\* DocumentScanner.create_thumbnail(image, max_size), on the shape <<width,
\* height>> of the image.  The record keeps the locals scale, new_width and
\* new_height and the shape of the image returned; cv2.resize raises for a
\* size with a zero dimension, and returned is then None.
CreateThumbnail(shape, max_size) ==
    LET width == shape[1]
        height == shape[2]
        scale == FloatMin(TrueDivide(max_size, width),
                          TrueDivide(max_size, height))
        new_width == IntOfFloat(MultiplyByInt(width, scale))
        new_height == IntOfFloat(MultiplyByInt(height, scale))
    IN  [ scale |-> scale, new_width |-> new_width, new_height |-> new_height,
          returned |-> IF new_width = 0 \/ new_height = 0 THEN None
                       ELSE Some(<<new_width, new_height>>) ]

\* A call scanner.create_thumbnail(image, max_size).
CallCreateThumbnail ==
    /\ op = "none"
    /\ \E shape \in ThumbnailShapes, max_size \in MaxSizes :
        /\ op' = "create_thumbnail"
        /\ args' = [shape |-> shape, max_size |-> max_size]
        /\ ret' = CreateThumbnail(shape, max_size)
    /\ UNCHANGED <<pc, result, heap, scanner, calls, locals, published>>

NextThumbnail == CallCreateThumbnail

SpecThumbnail == Init /\ [][NextThumbnail]_vars

\* ------------------------------------------------------------ claim C12
\* C12: create_thumbnail never upscales: neither dimension of the thumbnail
\* is larger than the source's, and a source whose longer dimension is
\* already below max_size keeps its longer dimension.
C12_NeverUpscales ==
    (op = "create_thumbnail" /\ ret.returned # None) =>
        /\ ret.returned[1][1] <= args.shape[1]
        /\ ret.returned[1][2] <= args.shape[2]
        /\ Max(args.shape[1], args.shape[2]) < args.max_size
              => Max(ret.returned[1][1], ret.returned[1][2])
                    = Max(args.shape[1], args.shape[2])

\* ------------------------------------------------------------ claim C13
\* C13: for every source and every max_size >= 1 neither dimension of the
\* thumbnail exceeds max_size, and when the source's longer dimension
\* exceeds max_size the thumbnail's longer dimension equals max_size.
C13_LongerSideIsMaxSize ==
    (op = "create_thumbnail" /\ ret.returned # None) =>
        /\ ret.returned[1][1] <= args.max_size
        /\ ret.returned[1][2] <= args.max_size
        /\ Max(args.shape[1], args.shape[2]) > args.max_size
              => Max(ret.returned[1][1], ret.returned[1][2]) = args.max_size

\* --------------------------------------------------------------- rotation
\* Largest width and height of the images whose pixels are followed.
MaxRotateSide == 2

\* Values of the angle followed (ScanSettings.rotation is 0..360): the four
\* right angles, an oblique angle and the full turn.
RotationAngles == {0, 45, 90, 180, 270, 360}

\* One, in the unit cos and sin are written in.
Million == 1000000

\* cos = |matrix[0, 0]| and sin = |matrix[0, 1]| of the matrix
\* cv2.getRotationMatrix2D builds, in millionths: 0.707107 each for 45
\* degrees, 1.0 and 0.0 (2.4e-16) for 360 degrees.
AbsCosSin(angle) ==
    IF angle = 45 THEN <<707107, 707107>> ELSE <<Million, 0>>

\* A pixel that cv2.warpAffine computes by interpolation; its value is not
\* followed.
Resampled == -1

\* image.shape as (width, height), for an image given by its rows of pixels.
ShapeOf(pixels) == <<Len(pixels[1]), Len(pixels)>>

\* cv2.rotate(image, cv2.ROTATE_90_CLOCKWISE): the left column, read upwards,
\* becomes the top row.
Rotate90Clockwise(pixels) ==
    LET w == Len(pixels[1])
        h == Len(pixels)
    IN  [i \in 1..w |-> [j \in 1..h |-> pixels[h + 1 - j][i]]]

\* cv2.rotate(image, cv2.ROTATE_180).
Rotate180(pixels) ==
    LET w == Len(pixels[1])
        h == Len(pixels)
    IN  [i \in 1..h |-> [j \in 1..w |-> pixels[h + 1 - i][w + 1 - j]]]

\* A plausible slip: a transposition taken for the counter-clockwise turn.
Rotate90Transposed(pixels) ==
    LET w == Len(pixels[1])
        h == Len(pixels)
    IN  [i \in 1..w |-> [j \in 1..h |-> pixels[j][i]]]

\* cv2.rotate(image, cv2.ROTATE_90_COUNTERCLOCKWISE): the right column, read
\* downwards, becomes the top row.
Rotate90CounterClockwise(pixels) ==
    LET w == Len(pixels[1])
        h == Len(pixels)
    IN  [i \in 1..w |-> [j \in 1..h |-> pixels[j][w + 1 - i]]]

\* The shape (width, height) of what rotate_image returns for an image of the
\* given shape: unchanged for 0 and 180, swapped for 90 and 270, and
\* (int(height * sin + width * cos), int(height * cos + width * sin)) for any
\* other angle.
RotateShape(shape, angle) ==
    LET width == shape[1]
        height == shape[2]
        cos == AbsCosSin(angle)[1]
        sin == AbsCosSin(angle)[2]
    IN  IF angle \in {0, 180} THEN shape
        ELSE IF angle \in {90, 270} THEN <<height, width>>
        ELSE << (height * sin + width * cos) \div Million,
                (height * cos + width * sin) \div Million >>

\* DocumentScanner.rotate_image(image, angle), on the pixels of the image.
RotateImage(pixels, angle) ==
    IF angle = 0 THEN pixels
    ELSE IF angle = 90 THEN Rotate90Clockwise(pixels)
    ELSE IF angle = 180 THEN Rotate180(pixels)
    ELSE IF angle = 270 THEN Rotate90CounterClockwise(pixels)
    ELSE LET new == RotateShape(ShapeOf(pixels), angle)
         IN  [i \in 1..new[2] |-> [j \in 1..new[1] |-> Resampled]]

\* The images whose pixels are followed: every bitmap of up to MaxRotateSide
\* by MaxRotateSide pixels.
RotateImages ==
    UNION { [1..h -> [1..w -> {0, 1}]] : w \in 1..MaxRotateSide, h \in 1..MaxRotateSide }

\* scanner.rotate_image(image, first), then scanner.rotate_image of what it
\* returned by second.
CallRotateImageTwice ==
    /\ op = "none"
    /\ \E image \in RotateImages, first \in RotationAngles, second \in RotationAngles :
        /\ op' = "rotate_image twice"
        /\ args' = [image |-> image, first |-> first, second |-> second]
        /\ ret' = [first |-> RotateImage(image, first),
                   second |-> RotateImage(RotateImage(image, first), second)]
    /\ UNCHANGED <<pc, result, heap, scanner, calls, locals, published>>

NextRotate == CallRotateImageTwice

SpecRotate == Init /\ [][NextRotate]_vars

\* ------------------------------------------------------------ claim C15
\* C15: rotate_image by 90 or 270 returns an image with width and height
\* swapped and by 180 an image of the same shape (no canvas growth); rotating
\* by 90 and then by 270, or by 180 twice, gives back the original pixel for
\* pixel.
C15_RightAnglesExact ==
    op = "rotate_image twice" =>
        /\ args.first \in {90, 270}
              => ShapeOf(ret.first) = <<ShapeOf(args.image)[2], ShapeOf(args.image)[1]>>
        /\ args.first = 180 => ShapeOf(ret.first) = ShapeOf(args.image)
        /\ (args.first = 90 /\ args.second = 270) => ret.second = args.image
        /\ (args.first = 180 /\ args.second = 180) => ret.second = args.image

\* A two-pixel row with different pixels was turned into a column by 90
\* degrees and back into the same row by 270.
C15_Witness ==
    /\ op = "rotate_image twice"
    /\ args.image = << <<0, 1>> >>
    /\ args.first = 90
    /\ args.second = 270
    /\ ret.first = << <<0>>, <<1>> >>
    /\ ret.second = << <<0, 1>> >>

\* ---------------------------------------------------------- image buffers
\* Shapes (width, height) of the images loaded: a single pixel, a small
\* image, a 1000x1 strip and a photograph.
OperationShapes == {<<1, 1>>, <<3, 2>>, <<1000, 1>>, <<800, 1000>>}

\* An ndarray: its shape and the calls that computed its pixels.
Buffer(shape, pixels) == [shape |-> shape, pixels |-> pixels]

\* What a call hands back: the index in heap of the array it returns, or the
\* fact that it raised.
Returned(buffer) == [buffer |-> Some(buffer), raised |-> FALSE]

Raised == [buffer |-> None, raised |-> TRUE]

\* The filters an enhance_scan call applies to its copy of the image.
EnhanceFilters(a) ==
    (IF AutoEnhanceRuns(a) THEN << "_auto_enhance" >> ELSE <<>>)
        \o (IF AdjustRuns(a) THEN << "_adjust_brightness_contrast" >> ELSE <<>>)
        \o ModeConversion(a)

\* The caller reads the uploaded file: image = cv2.imread(file_path).
LoadImage ==
    /\ op = "none"
    /\ heap = <<>>
    /\ \E shape \in OperationShapes :
        heap' = << Buffer(shape, << "imread" >>) >>
    /\ UNCHANGED <<op, args, ret, pc, result, scanner, calls, locals, published>>

\* scanner.perspective_transform(image, corners) on the loaded image, with the
\* corners of the whole image or a manual override: cv2.warpPerspective
\* allocates the image returned.
PerspectiveTransformImage ==
    /\ op = "none"
    /\ heap # <<>>
    /\ \E corners \in (ManualCorners \ {None}) \cup {Some(FullImageCorners(heap[1].shape))} :
        LET transform == PerspectiveTransform(heap[1].shape, corners[1], None, None)
        IN  /\ op' = "perspective_transform"
            /\ args' = [image |-> 1, corners |-> corners[1]]
            /\ heap' = Append(heap, Buffer(transform.warped, << "warpPerspective" >>))
            /\ ret' = Returned(Len(heap) + 1)
    /\ UNCHANGED <<pc, result, scanner, calls, locals, published>>

\* scanner.rotate_image(image, angle) on the loaded image: `return image` for
\* angle 0, else the array cv2.rotate or cv2.warpAffine allocates.
RotateImageCall ==
    /\ op = "none"
    /\ heap # <<>>
    /\ \E angle \in RotationAngles :
        /\ op' = "rotate_image"
        /\ args' = [image |-> 1, angle |-> angle]
        /\ IF angle = 0
           THEN /\ heap' = heap
                /\ ret' = Returned(1)
           ELSE /\ heap' = Append(heap, Buffer(RotateShape(heap[1].shape, angle),
                                               << "rotate_image" >>))
                /\ ret' = Returned(Len(heap) + 1)
    /\ UNCHANGED <<pc, result, scanner, calls, locals, published>>

\* scanner.enhance_scan(image, ...) on the loaded image: result =
\* image.copy(), and every filter returns a new array of the same size.
EnhanceScanCall ==
    /\ op = "none"
    /\ heap # <<>>
    /\ \E a \in EnhanceArgs :
        /\ op' = "enhance_scan"
        /\ args' = [image |-> 1, settings |-> a]
        /\ heap' = Append(heap, Buffer(heap[1].shape, << "copy" >> \o EnhanceFilters(a)))
        /\ ret' = Returned(Len(heap) + 1)
    /\ UNCHANGED <<pc, result, scanner, calls, locals, published>>

\* scanner.create_thumbnail(image, max_size) on the loaded image: cv2.resize
\* allocates the thumbnail, or raises for a size with a zero dimension.
CreateThumbnailCall ==
    /\ op = "none"
    /\ heap # <<>>
    /\ \E max_size \in MaxSizes :
        LET thumbnail == CreateThumbnail(heap[1].shape, max_size)
        IN  /\ op' = "create_thumbnail"
            /\ args' = [image |-> 1, max_size |-> max_size]
            /\ IF thumbnail.returned = None
               THEN /\ heap' = heap
                    /\ ret' = Raised
               ELSE /\ heap' = Append(heap, Buffer(thumbnail.returned[1], << "resize" >>))
                    /\ ret' = Returned(Len(heap) + 1)
    /\ UNCHANGED <<pc, result, scanner, calls, locals, published>>

NextOperations ==
    \/ LoadImage
    \/ PerspectiveTransformImage
    \/ RotateImageCall
    \/ EnhanceScanCall
    \/ CreateThumbnailCall

SpecOperations == Init /\ [][NextOperations]_vars

\* ------------------------------------------------------------ claim C14
\* C14: enhance_scan, rotate_image and create_thumbnail are total: on every
\* image of at least 1x1 pixels (a 1000x1 strip included) and for every valid
\* setting the call completes without error, and both dimensions of its
\* output are at least 1.
C14_Total ==
    (heap # <<>> /\ op \in {"enhance_scan", "rotate_image", "create_thumbnail"}) =>
        /\ ~ret.raised
        /\ heap[ret.buffer[1]].shape[1] >= 1
        /\ heap[ret.buffer[1]].shape[2] >= 1

\* ------------------------------------------------------------ claim C20
\* C20: perspective_transform, rotate_image, enhance_scan and
\* create_thumbnail leave the caller's image as it was and return a buffer
\* other than the caller's, for all parameter values (rotation 0 and the
\* color mode without adjustment included).
C20_NewBuffer ==
    [][ (op = "none" /\ op' \in {"perspective_transform", "rotate_image",
                                 "enhance_scan", "create_thumbnail"}) =>
            /\ heap'[args'.image] = heap[args'.image]
            /\ ~ret'.raised => ret'.buffer[1] # args'.image ]_vars

\* ------------------------------------------------------ the working image
\* Shapes (width, height) of the images without a document that are followed
\* through detect_document_edges: below, at and above max_dim.
BlankShapes ==
    { <<1, 1>>, <<640, 480>>, <<999, 1000>>, <<1000, 1000>>, <<1001, 1000>>,
      <<1500, 1000>>, <<3000, 2000>>, <<4000, 3000>>, <<1000, 4000>> }

\* Images in which no detector finds a candidate.
BlankImages ==
    [ shape : BlankShapes, contour : {<<>>}, hough : {<<>>}, bright : {<<>>},
      score : ScoreFunctions(DetQuads), refine : {[raises |-> FALSE, shift |-> NoShift]} ]

\* A direct call scanner.detect_document_edges(image) on an image without a
\* document.
CallDetectDocumentEdgesBlank ==
    /\ op = "none"
    /\ \E image \in BlankImages :
        /\ op' = "detect_document_edges"
        /\ args' = [image |-> image]
        /\ ret' = DetectDocumentEdges(image)
    /\ UNCHANGED <<pc, result, heap, scanner, calls, locals, published>>

NextDetectDirect ==
    \/ CallDetectDocumentEdges
    \/ CallDetectDocumentEdgesBlank

SpecDetectDirect == Init /\ [][NextDetectDirect]_vars

\* ------------------------------------------------------------ claim C16
\* C16: when corner refinement fails inside _refine_corners,
\* detect_document_edges still returns the selected quad, unrefined, ordered
\* and scaled back: the failure is not propagated and does not turn a
\* detection into the failure outcome.
C16_RefineFailureKeepsQuad ==
    (op = "detect_document_edges" /\ ret.best # None /\ args.image.refine.raises) =>
        /\ ret.refined = ret.best[1]
        /\ ret.ordered = OrderPoints(ret.best[1])
        /\ ret.returned # None
        /\ \A i \in 1..4 : \A k \in 1..2 :
              ret.returned[i][k] * ret.scale[1] = ret.ordered[i][k] * ret.scale[2]

\* Refinement failed on a 2000x1000 image whose best candidate is QuadA, and
\* the call returned QuadA's corners, ordered and doubled.
C16_Witness ==
    /\ op = "detect_document_edges"
    /\ args.image.shape = <<2000, 1000>>
    /\ args.image.refine.raises
    /\ ret.best = Some(QuadA)
    /\ ret.returned = << <<40, 60>>, <<440, 80>>, <<460, 800>>, <<20, 780>> >>

\* ------------------------------------------------------------ claim C17
\* C17: detection runs on a working image scaled by s = min(1000 / W,
\* 1000 / H, 1): the larger dimension of the working image never exceeds
\* 1000, the image is never enlarged, and every coordinate returned is the
\* working-image coordinate divided by s.
C17_WorkingScale ==
    op = "detect_document_edges" =>
        LET W == args.image.shape[1]
            H == args.image.shape[2]
            working == Resized(args.image.shape)
        IN  /\ Max(W, H) <= 1000 => ret.scale[1] = ret.scale[2]
            /\ Max(W, H) > 1000 => ret.scale[1] * Max(W, H) = 1000 * ret.scale[2]
            /\ Max(working[1], working[2]) <= 1000
            /\ working[1] <= W
            /\ working[2] <= H
            /\ ret.returned # None =>
                  \A i \in 1..4 : \A k \in 1..2 :
                      ret.returned[i][k] * ret.scale[1]
                          = ret.ordered[i][k] * ret.scale[2]

\* A 1000x1500 image was searched at 667x1000, and the corners found there
\* came back multiplied by 3/2.
C17_Witness ==
    /\ op = "detect_document_edges"
    /\ args.image.shape = <<1000, 1500>>
    /\ Resized(args.image.shape) = <<667, 1000>>
    /\ ret.scale[1] * 3 = ret.scale[2] * 2
    /\ ret.best = Some(QuadB)
    /\ args.image.refine.raises
    /\ ret.ordered = << <<40, 60>>, <<200, 40>>, <<220, 300>>, <<60, 280>> >>
    /\ ret.returned = << <<60, 90>>, <<300, 60>>, <<330, 450>>, <<90, 420>> >>

\* -------------------------------------------------------- concurrent calls
\* A four-point shape too small for the area check of a 1000x500 working
\* image (0.5 % of it).
QuadSmall == << <<10, 10>>, <<60, 10>>, <<60, 60>>, <<10, 60>> >>

\* The score _score_document gives the candidates of the images below.
ThreadScore == [q \in {QuadA, QuadB, QuadSmall} |-> IF q = QuadB THEN 1 ELSE 0]

\* The images the threads work on: 2000x1000 photographs in which each
\* detector comes across nothing or across something.
ThreadImages ==
    [ shape : {<<2000, 1000>>},
      contour : {<<>>, <<QuadSmall, QuadA>>},
      hough : {<<>>, <<QuadB>>},
      bright : {<<>>, <<QuadSmall>>},
      score : {ThreadScore},
      refine : {[raises |-> FALSE, shift |-> NoShift]} ]

\* Thread t enters scanner.detect_document_edges(image): scale, resized and
\* all_quads = [].
EnterDetect(t) ==
    /\ calls[t].pc = "idle"
    /\ \E image \in ThreadImages :
        calls' = [calls EXCEPT ![t] =
                    [IdleCall EXCEPT !.pc = "contour", !.image = Some(image)]]
    /\ UNCHANGED <<op, args, ret, pc, result, heap, scanner, locals, published>>

\* A plausible slip: the contour detector tunes the area threshold of the
\* scanner to the image it is given.
FindContourQuadsStepTuning(t) ==
    /\ calls[t].pc = "contour"
    /\ scanner' = [scanner EXCEPT !.min_area_ratio =
                      IF calls[t].image[1].hough = <<>> THEN 1 ELSE 20]
    /\ calls' = [calls EXCEPT ![t].pc = "hough",
                              ![t].log = Append(@, "_find_contour_quads"),
                              ![t].all_quads = @ \o FindContourQuads(calls[t].image[1])]
    /\ UNCHANGED <<op, args, ret, pc, result, heap, locals, published>>

\* contour_quads = self._find_contour_quads(resized);
\* all_quads.extend(contour_quads)
FindContourQuadsStep(t) ==
    /\ calls[t].pc = "contour"
    /\ calls' = [calls EXCEPT ![t].pc = "hough",
                              ![t].log = Append(@, "_find_contour_quads"),
                              ![t].all_quads = @ \o FindContourQuads(calls[t].image[1])]
    /\ UNCHANGED <<op, args, ret, pc, result, heap, scanner, locals, published>>

\* A plausible slip: the Hough detector is skipped once the contour detector
\* has found a candidate.
FindHoughQuadsStepShortCircuit(t) ==
    /\ calls[t].pc = "hough"
    /\ calls' = IF calls[t].all_quads # <<>>
                THEN [calls EXCEPT ![t].pc = "bright"]
                ELSE [calls EXCEPT ![t].pc = "bright",
                                   ![t].log = Append(@, "_find_hough_quads"),
                                   ![t].all_quads = @ \o FindHoughQuads(calls[t].image[1])]
    /\ UNCHANGED <<op, args, ret, pc, result, heap, scanner, locals, published>>

\* hough_quads = self._find_hough_quads(resized); all_quads.extend(hough_quads)
FindHoughQuadsStep(t) ==
    /\ calls[t].pc = "hough"
    /\ calls' = [calls EXCEPT ![t].pc = "bright",
                              ![t].log = Append(@, "_find_hough_quads"),
                              ![t].all_quads = @ \o FindHoughQuads(calls[t].image[1])]
    /\ UNCHANGED <<op, args, ret, pc, result, heap, scanner, locals, published>>

\* bright_quads = self._find_bright_regions(resized);
\* all_quads.extend(bright_quads)
FindBrightRegionsStep(t) ==
    /\ calls[t].pc = "bright"
    /\ calls' = [calls EXCEPT ![t].pc = "select",
                              ![t].log = Append(@, "_find_bright_regions"),
                              ![t].all_quads = @ \o FindBrightRegions(calls[t].image[1])]
    /\ UNCHANGED <<op, args, ret, pc, result, heap, scanner, locals, published>>

\* if not all_quads: return None;
\* best = self._select_best_document(all_quads, resized), and return None
\* when there is no best.
SelectStep(t) ==
    /\ calls[t].pc = "select"
    /\ LET best == IF calls[t].all_quads = <<>> THEN None
                   ELSE SelectBestDocument(calls[t].all_quads, calls[t].image[1].score)
       IN  calls' = IF best = None
                    THEN [calls EXCEPT ![t].pc = "done", ![t].ret = None]
                    ELSE [calls EXCEPT ![t].pc = "refine", ![t].best = best]
    /\ UNCHANGED <<op, args, ret, pc, result, heap, scanner, locals, published>>

\* refined = self._refine_corners(resized, best)
RefineStep(t) ==
    /\ calls[t].pc = "refine"
    /\ calls' = [calls EXCEPT
                   ![t].pc = "return",
                   ![t].log = Append(@, "_refine_corners"),
                   ![t].refined = Some(RefineCorners(calls[t].image[1], calls[t].best[1]))]
    /\ UNCHANGED <<op, args, ret, pc, result, heap, scanner, locals, published>>

\* ordered = self._order_points(refined); return (ordered / scale)
ReturnStep(t) ==
    /\ calls[t].pc = "return"
    /\ LET ordered == OrderPoints(calls[t].refined[1])
           scale == Scale(calls[t].image[1].shape)
       IN  calls' = [calls EXCEPT
                       ![t].pc = "done",
                       ![t].ret = [i \in 1..4 |->
                                     << ScaleBack(ordered[i][1], scale),
                                        ScaleBack(ordered[i][2], scale) >>]]
    /\ UNCHANGED <<op, args, ret, pc, result, heap, scanner, locals, published>>

NextConcurrent ==
    \E t \in Threads :
        \/ EnterDetect(t)
        \/ FindContourQuadsStep(t)
        \/ FindHoughQuadsStep(t)
        \/ FindBrightRegionsStep(t)
        \/ SelectStep(t)
        \/ RefineStep(t)
        \/ ReturnStep(t)

SpecConcurrent == Init /\ [][NextConcurrent]_vars

\* ------------------------------------------------------------ claim C18
\* The detectors among the functions a call has run so far.
DetectorsRun(t) ==
    SelectSeq(calls[t].log, LAMBDA f : f # "_refine_corners")

\* The detectors a call has been through when it is at a position.
DetectorsBy(position) ==
    IF position \in {"idle", "contour"} THEN <<>>
    ELSE IF position = "hough" THEN << "_find_contour_quads" >>
    ELSE IF position = "bright" THEN << "_find_contour_quads", "_find_hough_quads" >>
    ELSE << "_find_contour_quads", "_find_hough_quads", "_find_bright_regions" >>

\* C18: in every detect_document_edges call each of the three detectors runs
\* exactly once, whatever the others returned; their outputs are pooled in
\* the order contour, Hough, brightness; and the quad handed to refinement is
\* a member of the pool.
C18_DetectorsPooled ==
    \A t \in Threads :
        /\ DetectorsRun(t) = DetectorsBy(calls[t].pc)
        /\ calls[t].pc \in {"select", "refine", "return", "done"} =>
              calls[t].all_quads
                  = FindContourQuads(calls[t].image[1])
                      \o FindHoughQuads(calls[t].image[1])
                      \o FindBrightRegions(calls[t].image[1])
        /\ calls[t].refined # None =>
              /\ calls[t].best # None
              /\ \E i \in 1..Len(calls[t].all_quads) :
                    calls[t].all_quads[i] = calls[t].best[1]

\* The contour detector had found QuadA, the other two ran all the same, and
\* the best of the pool <<QuadA, QuadB>> went to refinement.
C18_Witness ==
    \E t \in Threads :
        /\ calls[t].pc = "done"
        /\ calls[t].log = << "_find_contour_quads", "_find_hough_quads",
                             "_find_bright_regions", "_refine_corners" >>
        /\ calls[t].all_quads = <<QuadA, QuadB>>
        /\ calls[t].best = Some(QuadB)
        /\ calls[t].ret # None

\* ------------------------------------------------------------ claim C19
\* C19: whatever the interleaving of concurrent calls on the singleton, each
\* call returns what it returns when run alone: no operation writes
\* min_area_ratio, max_area_ratio or other state shared between calls.
C19_NoInterference ==
    /\ scanner = DocumentScanner
    /\ \A t \in Threads :
          calls[t].pc = "done" =>
              calls[t].ret = DetectDocumentEdges(calls[t].image[1]).returned

\* One call has returned corners while another call, on another image, is
\* between two detectors.
C19_Witness ==
    /\ calls[1].pc = "done"
    /\ calls[1].ret # None
    /\ calls[2].pc = "bright"
    /\ calls[2].image # calls[1].image
    /\ calls[2].all_quads = <<QuadA>>

\* ------------------------------------------- enhance_scan, filter mode bw
\* _clean_document_binarization on images one pixel wide, given as the column
\* of their gray values, top row first.  On such an image every filter of the
\* pipeline works down the column.  Values that the code holds as floats are
\* kept in hundredths of a gray level.

\* Largest number of rows of the small images.
MaxRows == 4

\* The image of test_enhance_scan_bw has 100 rows, the top 50 light.
TestRows == 100

TestSplit == 50

\* The sequence <<F(lo), ..., F(hi)>>, built by halves.
RECURSIVE Tabulate(_, _, _)
Tabulate(F(_), lo, hi) ==
    IF lo > hi THEN <<>>
    ELSE IF lo = hi THEN <<F(lo)>>
    ELSE LET mid == (lo + hi) \div 2
         IN  Tabulate(F, lo, mid) \o Tabulate(F, mid + 1, hi)

\* F(lo) + ... + F(hi), summed by halves.
RECURSIVE Sum(_, _, _)
Sum(F(_), lo, hi) ==
    IF lo > hi THEN 0
    ELSE IF lo = hi THEN F(lo)
    ELSE LET mid == (lo + hi) \div 2
         IN  Sum(F, lo, mid) + Sum(F, mid + 1, hi)

\* BORDER_REFLECT_101, the default border of cv2.GaussianBlur: the row that
\* stands for row i (rows counted from 1) of a column of n rows; the rows
\* past an end mirror the rows before it, the end row itself not repeated.
RECURSIVE Reflect101(_, _)
Reflect101(i, n) ==
    IF n = 1 THEN 1
    ELSE IF i < 1 THEN Reflect101(2 - i, n)
    ELSE IF i > n THEN Reflect101(2 * n - i, n)
    ELSE i

\* cv2.GaussianBlur(gray, (3, 3), 0): the kernel of size 3 is (1, 2, 1)/4,
\* and the 8-bit result is rounded to the nearest level.
GaussianBlur3(gray) ==
    LET n == Len(gray)
        at(i) == gray[Reflect101(i, n)]
        blurred(i) == (at(i - 1) + 2 * at(i) + at(i + 1) + 2) \div 4
    IN  Tabulate(blurred, 1, n)

\* blur_size = 81.
blur_size == 81

\* cv2.getGaussianKernel(81, 0): sigma = 0.3 * ((81 - 1) * 0.5 - 1) + 0.8 =
\* 12.5; the weights exp(-d^2 / (2 sigma^2)) at distance d = 0..40 from the
\* centre, normalised to sum 1 over the 81 taps, in units of 1/65536.
GaussianKernel81 ==
    <<2092, 2087, 2067, 2035, 1990, 1933, 1866, 1790, 1706, 1616, 1521,
      1422, 1321, 1219, 1118, 1019, 923, 831, 743, 660, 582, 511, 445, 385,
      332, 283, 241, 203, 170, 142, 118, 97, 79, 64, 52, 42, 33, 26, 21, 16,
      13>>

\* cv2.GaussianBlur(denoised, (blur_size, blur_size), 0), rounded to the
\* nearest level.
GaussianBlur81(denoised) ==
    LET n == Len(denoised)
        half == (blur_size - 1) \div 2
        tap(i, d) == GaussianKernel81[Abs(d) + 1] * denoised[Reflect101(i + d, n)]
        blurred(i) ==
            (Sum(LAMBDA d : tap(i, d), -half, half) + 32768) \div 65536
    IN  Tabulate(blurred, 1, n)

\* np.clip(x, 0, 255), in hundredths.
Clip(x) == Max(0, Min(25500, x))

\* np.clip(denoised / (local_mean + 1) * 220, 0, 255), in hundredths.
Normalize(denoised, local_mean) ==
    LET normalized(i) == Clip((denoised[i] * 22000) \div (local_mean[i] + 1))
    IN  Tabulate(normalized, 1, Len(denoised))

\* The k-th smallest value of a sequence, k = 1 for the smallest.
KthSmallest(values, k) ==
    CHOOSE v \in {values[i] : i \in DOMAIN values} :
        /\ Cardinality({i \in DOMAIN values : values[i] < v}) < k
        /\ Cardinality({i \in DOMAIN values : values[i] <= v}) >= k

\* np.percentile(values, q): the value at position (n - 1) * q / 100 of the
\* sorted values, interpolated linearly between the two neighbours.
Percentile(values, q) ==
    LET n == Len(values)
        position == (n - 1) * q
        below == KthSmallest(values, position \div 100 + 1)
        above == KthSmallest(values, Min(position \div 100 + 2, n))
    IN  below + ((above - below) * (position % 100)) \div 100

\* The square root of a ratio in 0..1 held in units of 1/10000.
Root(x) == ISqrt(x * 10000)

\* x^(1/2^k) for k >= 0.
RECURSIVE RootTimes(_, _)
RootTimes(x, k) == IF k = 0 THEN x ELSE RootTimes(Root(x), k - 1)

\* The product of two ratios.
Times(x, y) == (x * y) \div 10000

\* np.power(x, gamma) with gamma = 0.55 for a ratio x in 0..1: 0.55 is
\* 1/2 + 1/32 + 1/64 + 1/512 + 1/1024 to four binary digits more than the
\* ratio carries, so the power is the product of these five roots.
PowerGamma(x) ==
    Times(Times(Times(Times(RootTimes(x, 1), RootTimes(x, 5)),
                      RootTimes(x, 6)), RootTimes(x, 9)), RootTimes(x, 10))

\* _clean_document_binarization(gray): the denoised image is divided by its
\* local mean, stretched between its 3rd and 85th percentile, raised to the
\* power gamma, boosted by 1.4 and lowered by 50, then cut to 8 bits.
CleanDocumentBinarization(gray) ==
    LET n == Len(gray)
        denoised == GaussianBlur3(gray)
        local_mean == GaussianBlur81(denoised)
        normalized == Normalize(denoised, local_mean)
        p_low == Percentile(normalized, 3)
        p_high == Percentile(normalized, 85)
        stretch(i) ==
            IF p_high > p_low
            THEN Clip(((normalized[i] - p_low) * 25500) \div (p_high - p_low))
            ELSE normalized[i]
        stretched == Tabulate(stretch, 1, n)
        corrected(i) == (51 * PowerGamma((stretched[i] * 20) \div 51)) \div 20
        boosted(i) == Clip((corrected(i) * 14) \div 10 - 5000) \div 100
    IN  Tabulate(boosted, 1, n)

\* enhance_scan(image, mode="bw", auto_enhance=False) with brightness =
\* contrast = 0 on a gray image: cvtColor BGR2GRAY of a pixel (v, v, v) is v,
\* the binarization runs on it, and cvtColor GRAY2BGR gives each pixel its
\* value on the three channels.
EnhanceScanBw(image) == CleanDocumentBinarization(image)

Light == {130, 200, 220}

Dark == {30, 50, 120}

\* The number of rows of the images and, for each, where the tone changes.
RowCounts == (2..MaxRows) \cup {TestRows}

Splits(rows) == IF rows = TestRows THEN {TestSplit} ELSE 1..(rows - 1)

\* The image whose first `split` rows have the tone `top` and whose other
\* rows have the tone `bottom`.
TwoTone(rows, split, top, bottom) ==
    Tabulate(LAMBDA i : IF i <= split THEN top ELSE bottom, 1, rows)

\* A call of enhance_scan with mode bw on a two-tone image, the light tone
\* above or below.
CallEnhanceScanBw ==
    /\ op = "none"
    /\ \E rows \in RowCounts, light \in Light, dark \in Dark,
          light_above \in BOOLEAN :
        \E split \in Splits(rows) :
            LET image == IF light_above
                         THEN TwoTone(rows, split, light, dark)
                         ELSE TwoTone(rows, split, dark, light)
            IN  /\ op' = "enhance_scan bw"
                /\ args' = [image |-> image]
                /\ ret' = EnhanceScanBw(image)
    /\ UNCHANGED <<pc, result, heap, scanner, calls, locals, published>>

NextBinarize == CallEnhanceScanBw

SpecBinarize == Init /\ [][NextBinarize]_vars

\* ------------------------------------------------------------ claim C21
\* n^2 times the variance of the pixel values: n * sum(v^2) - sum(v)^2.  For
\* two images of the same size it orders them as their standard deviations.
ScaledVariance(pixels) ==
    Len(pixels) * Sum(LAMBDA i : pixels[i] * pixels[i], 1, Len(pixels))
        - Sum(LAMBDA i : pixels[i], 1, Len(pixels))
            * Sum(LAMBDA i : pixels[i], 1, Len(pixels))

\* C21: for every two-tone (light gray / dark gray) image, enhance_scan with
\* mode bw returns an image whose pixel standard deviation is higher than
\* that of the source.
C21_StdHigher ==
    op = "enhance_scan bw" =>
        ScaledVariance(ret) > ScaledVariance(args.image)

\* ------------------------------------------------ requests: CSRF and auth
\* A request carries a method, a path, a csrf_token cookie, an X-CSRF-Token
\* header and an Authorization header; the last three may be absent.  The
\* response carries a status and, when a cookie is set, the new csrf_token.

\* The routes of the claims, with the dependency on get_current_user of the
\* protected ones, and two routes that need no user.
Routes ==
    { [method |-> "POST", path |-> "/api/tasks/process/test-uuid", protected |-> TRUE],
      [method |-> "POST", path |-> "/api/tasks/bulk-process", protected |-> TRUE],
      [method |-> "POST", path |-> "/api/documents/upload", protected |-> TRUE],
      [method |-> "GET", path |-> "/api/tasks/status/test-task-id", protected |-> TRUE],
      [method |-> "POST", path |-> "/api/auth/token", protected |-> FALSE],
      [method |-> "GET", path |-> "/api/health", protected |-> FALSE] }

\* CSRF_SAFE_METHODS.
CSRF_SAFE_METHODS == {"GET", "HEAD", "OPTIONS", "TRACE"}

\* CSRF_EXEMPT_PATHS.
CSRF_EXEMPT_PATHS ==
    {"/api/auth/token", "/api/auth/register", "/api/auth/refresh", "/api/health"}

\* path.startswith(prefix), for the paths of Routes: none of them extends an
\* exempt path, so a path starts with an exempt path only when it is one.
StartsWith(path, prefix) == path = prefix

\* is_csrf_exempt(path, method).
IsCsrfExempt(path, method) ==
    \/ method \in CSRF_SAFE_METHODS
    \/ path \in CSRF_EXEMPT_PATHS
    \/ \E exempt_path \in CSRF_EXEMPT_PATHS : StartsWith(path, exempt_path)

\* `not token` for an optional string: absent or empty.
Falsy(token) == token = None \/ token = Some("")

\* validate_csrf_token(cookie_token, header_token).
ValidateCsrfToken(cookie_token, header_token) ==
    IF Falsy(cookie_token) \/ Falsy(header_token) THEN FALSE
    ELSE cookie_token = header_token

\* The tokens a client may hold, and those generate_csrf_token may draw: a
\* new token is 32 random bytes, never one a client already holds.
ClientTokens == {"t1", "t2"}

NewTokens == {"n1", "n2"}

\* The Authorization headers: a scheme and a token.  The token says what
\* decode_token and the user table make of it.
AccessTokens == {"access", "garbage", "refresh", "nosub", "nouser", "inactive"}

Authorizations ==
    {None, Some(<<"Basic", "access">>), Some(<<"Bearer", "">>)}
        \cup {Some(<<"Bearer", token>>) : token \in AccessTokens}

\* OAuth2PasswordBearerWithCookie.__call__: the token of a Bearer header;
\* without one OAuth2PasswordBearer raises 401 when the header is absent or
\* its scheme is not bearer, and passes an empty token on otherwise.
Oauth2Scheme(authorization) ==
    IF authorization = None THEN [status |-> 401, token |-> None]
    ELSE IF authorization[1][1] # "Bearer" THEN [status |-> 401, token |-> None]
    ELSE [status |-> 200, token |-> Some(authorization[1][2])]

\* get_current_user(token): 401 when the token does not decode, is not an
\* access token, names no user or an unknown user; 400 for an inactive
\* user; otherwise the user is passed to the endpoint.
GetCurrentUser(authorization) ==
    LET scheme == Oauth2Scheme(authorization)
    IN  IF scheme.status # 200 THEN 401
        ELSE IF scheme.token[1] \in {"", "garbage"} THEN 401
        ELSE IF scheme.token[1] = "refresh" THEN 401
        ELSE IF scheme.token[1] = "nosub" THEN 401
        ELSE IF scheme.token[1] = "nouser" THEN 401
        ELSE IF scheme.token[1] = "inactive" THEN 400
        ELSE 200

\* The statuses an endpoint may answer once its dependencies are resolved.
EndpointStatuses == {200, 404, 422, 503}

\* call_next(request): the dependencies of the route are resolved first, and
\* a failure of get_current_user is the response.
CallNext(request, endpoint_status) ==
    IF request.route.protected /\ GetCurrentUser(request.authorization) # 200
    THEN [status |-> GetCurrentUser(request.authorization), csrf_token |-> None]
    ELSE [status |-> endpoint_status, csrf_token |-> None]

\* CSRFMiddleware.dispatch(request, call_next): a request that changes state
\* and fails validation gets 403 at once; any other is passed on, and its
\* response sets a new csrf_token cookie when the request had none.
Dispatch(request, endpoint_status, new_token) ==
    IF /\ ~IsCsrfExempt(request.route.path, request.route.method)
       /\ ~ValidateCsrfToken(request.csrf_cookie, request.csrf_header)
    THEN [status |-> 403, csrf_token |-> None]
    ELSE LET response == CallNext(request, endpoint_status)
         IN  IF Falsy(request.csrf_cookie)
             THEN [response EXCEPT !.csrf_token = Some(new_token)]
             ELSE response

OptionalTokens == {None, Some("")} \cup {Some(token) : token \in ClientTokens}

Requests ==
    [route : Routes, csrf_cookie : OptionalTokens, csrf_header : OptionalTokens,
     authorization : Authorizations]

\* A client sends a request.
SendRequest ==
    /\ op = "none"
    /\ pc = "idle"
    /\ \E request \in Requests :
        /\ op' = "request"
        /\ args' = request
    /\ pc' = "dispatch"
    /\ UNCHANGED <<ret, result, heap, scanner, calls, locals, published>>

\* The application answers it.
DispatchRequest ==
    /\ op = "request"
    /\ pc = "dispatch"
    /\ \E endpoint_status \in EndpointStatuses, new_token \in NewTokens :
        ret' = Dispatch(args, endpoint_status, new_token)
    /\ pc' = "responded"
    /\ UNCHANGED <<op, args, result, heap, scanner, calls, locals, published>>

NextRequests == SendRequest \/ DispatchRequest

SpecRequests == Init /\ [][NextRequests]_vars

\* ------------------------------------------------------------ claim C22
\* C22: every request to a protected endpoint that carries no bearer token
\* is answered 401, for POST as well as GET endpoints and whether or not the
\* request carries an X-CSRF-Token header.
C22_Unauthorized ==
    (op = "request" /\ pc = "responded" /\ args.route.protected
        /\ args.authorization = None) => ret.status = 401

\* ------------------------------------------------------------ claim C23
\* C23: for every request that arrives without a csrf_token cookie, the
\* response sets a freshly generated csrf_token cookie, whether the request
\* was passed on to the application or rejected by CSRF validation.
C23_CookieSet ==
    (op = "request" /\ pc = "responded" /\ args.csrf_cookie = None) =>
        /\ ret.csrf_token # None
        /\ ret.csrf_token[1] \in NewTokens

\* ---------------------------------------------------------- _score_document
\* The area, photometric and edge components of the score of one candidate.
\* The rectangularity and aspect components (steps 2 and 3) are sums of the
\* same kind and are not followed.  The area component is an exact fraction;
\* the photometric component is in tenths of a point.

\* The working image of the scoring calls, 40 wide and 20 high.
ScoreShape == <<40, 20>>

\* The rectangle with the given sides, as a quad from its top-left corner
\* clockwise.
Rectangle(left, right, top, bottom) ==
    << <<left, top>>, <<right, top>>, <<right, bottom>>, <<left, bottom>> >>

\* Candidates in the working image: sides at, next to and away from the
\* margin, areas at, next to and away from 30 % and 85 % of the image.
ScoreQuads ==
    { Rectangle(left, right, top, bottom) :
        left \in {0, 6}, right \in {26, 30, 34, 35, 40},
        top \in {0, 5, 6}, bottom \in {14, 15, 18, 20} }

\* cv2.mean(gray, mask)[0] and cv2.mean(hsv[:, :, 1], mask)[0]: the mean
\* brightness and the mean saturation of the pixels under a mask.
BrightnessMeans == {0, 40, 41, 100, 255}

SaturationMeans == {0, 50, 51, 255}

\* Step 1 of _score_document with the branch bounds taken one after the
\* other from above: a ratio of exactly 0.30 falls to the last branch.
AreaScoreExclusive(quad, img_area) ==
    LET area2 == TwiceContourArea(quad)
        den == 2 * img_area
        area_ratio == TrueDivide(area2, den)
    IN  IF FloatLess(TrueDivide(3, 10), area_ratio)
           /\ ~FloatLess(TrueDivide(17, 20), area_ratio)
        THEN <<50 * den + 30 * area2, den>>
        ELSE IF FloatLess(TrueDivide(17, 20), area_ratio) THEN <<40 * den, den>>
        ELSE <<100 * area2, den>>

\* Step 1 of _score_document: area_ratio = area / img_area is a float, and
\* so are the literals 0.30 and 0.85 it is compared with; the score added
\* is the fraction <<numerator, denominator>>.
AreaScore(quad, img_area) ==
    LET area2 == TwiceContourArea(quad)
        den == 2 * img_area
        area_ratio == TrueDivide(area2, den)
    IN  IF ~FloatLess(area_ratio, TrueDivide(3, 10))
           /\ ~FloatLess(TrueDivide(17, 20), area_ratio)
        THEN <<50 * den + 30 * area2, den>>
        ELSE IF FloatLess(TrueDivide(17, 20), area_ratio) THEN <<40 * den, den>>
        ELSE <<100 * area2, den>>

\* Step 4 of _score_document without the floor of -80.
PhotometricScoreNoFloor(interior_brightness, exterior_brightness, interior_sat, exterior_sat) ==
    LET brightness_diff == interior_brightness - exterior_brightness
        sat_diff == exterior_sat - interior_sat
    IN  (IF brightness_diff > 0 THEN Min(1000, brightness_diff * 25)
         ELSE brightness_diff * 20)
        + (IF sat_diff > 0 THEN Min(600, sat_diff * 12) ELSE 0)

\* Step 4 of _score_document on a BGR image, for which no library call of
\* the step raises: what the brightness and saturation differences add, in
\* tenths.
PhotometricScore(interior_brightness, exterior_brightness, interior_sat, exterior_sat) ==
    LET brightness_diff == interior_brightness - exterior_brightness
        sat_diff == exterior_sat - interior_sat
    IN  (IF brightness_diff > 0 THEN Min(1000, brightness_diff * 25)
         ELSE Max(-800, brightness_diff * 20))
        + (IF sat_diff > 0 THEN Min(600, sat_diff * 12) ELSE 0)

\* margin = 5.
margin == 5

\* Step 5 of _score_document with one test per corner: a corner near a
\* boundary on both axes is counted once.
EdgePenaltyPerCorner(quad, img_width, img_height) ==
    10 * Cardinality({ i \in 1..4 :
            \/ quad[i][1] <= margin \/ quad[i][1] >= img_width - margin
            \/ quad[i][2] <= margin \/ quad[i][2] >= img_height - margin })

\* What one corner adds to edge_penalty.
PointPenalty(point, img_width, img_height) ==
    (IF point[1] <= margin \/ point[1] >= img_width - margin THEN 10 ELSE 0)
    + (IF point[2] <= margin \/ point[2] >= img_height - margin THEN 10 ELSE 0)

\* Step 5 of _score_document: edge_penalty after the loop over the corners.
EdgePenalty(quad, img_width, img_height) ==
    PointPenalty(quad[1], img_width, img_height)
    + PointPenalty(quad[2], img_width, img_height)
    + PointPenalty(quad[3], img_width, img_height)
    + PointPenalty(quad[4], img_width, img_height)

\* _score_document(quad, img_area, img_width, img_height, image), with the
\* four means the image has under the mask of the quad and outside it.
ScoreDocument(quad, img_area, img_width, img_height, image) ==
    [ area |-> AreaScore(quad, img_area),
      photometric |-> PhotometricScore(image.interior_brightness,
                                       image.exterior_brightness,
                                       image.interior_sat, image.exterior_sat),
      edge_penalty |-> EdgePenalty(quad, img_width, img_height) ]

\* A call of _score_document as _select_best_document makes it.
CallScoreDocument ==
    /\ op = "none"
    /\ \E quad \in ScoreQuads,
          interior_brightness \in BrightnessMeans,
          exterior_brightness \in BrightnessMeans,
          interior_sat \in SaturationMeans, exterior_sat \in SaturationMeans :
        LET image == [ shape |-> ScoreShape,
                       interior_brightness |-> interior_brightness,
                       exterior_brightness |-> exterior_brightness,
                       interior_sat |-> interior_sat,
                       exterior_sat |-> exterior_sat ]
        IN  /\ op' = "_score_document"
            /\ args' = [quad |-> quad, image |-> image]
            /\ ret' = ScoreDocument(quad, ScoreShape[1] * ScoreShape[2],
                                    ScoreShape[1], ScoreShape[2], image)
    /\ UNCHANGED <<pc, result, heap, scanner, calls, locals, published>>

NextScore == CallScoreDocument

SpecScore == Init /\ [][NextScore]_vars

\* ------------------------------------------------------------ claim C24
\* C24: for the area ratio r = area / image_area the area component is
\* 50 + 30 r when 0.30 <= r <= 0.85, both bounds included, 40 when r > 0.85
\* and 100 r when r < 0.30.  With r = n / d the three cases are compared in
\* whole numbers: the component c / d is 50 + 30 r when c = 50 d + 30 n.
C24_AreaComponent ==
    op = "_score_document" =>
        LET n == TwiceContourArea(args.quad)
            d == 2 * ScoreShape[1] * ScoreShape[2]
        IN  /\ ret.area[2] = d
            /\ (30 * d <= 100 * n /\ 100 * n <= 85 * d)
                   => ret.area[1] = 50 * d + 30 * n
            /\ 100 * n > 85 * d => ret.area[1] = 40 * d
            /\ 100 * n < 30 * d => ret.area[1] = 100 * n

\* A candidate of exactly 30 % of the image scores 59.
C24_Witness ==
    /\ op = "_score_document"
    /\ 100 * TwiceContourArea(args.quad) = 30 * ret.area[2]
    /\ ret.area[1] = 59 * ret.area[2]

\* ------------------------------------------------------------ claim C25
\* C25: the photometric component adds min(100, 2.5 d) when the interior
\* minus exterior brightness difference d is positive and max(-80, 2.0 d)
\* otherwise, plus min(60, 1.2 e) when the exterior minus interior
\* saturation difference e is positive and nothing otherwise; it always
\* lies in [-80, 160].
C25_Photometric ==
    op = "_score_document" =>
        LET d == args.image.interior_brightness - args.image.exterior_brightness
            e == args.image.exterior_sat - args.image.interior_sat
            brightness == IF d > 0 THEN (IF 25 * d < 1000 THEN 25 * d ELSE 1000)
                          ELSE (IF 20 * d > -800 THEN 20 * d ELSE -800)
            saturation == IF e > 0 THEN (IF 12 * e < 600 THEN 12 * e ELSE 600)
                          ELSE 0
        IN  /\ ret.photometric = brightness + saturation
            /\ ret.photometric >= -800
            /\ ret.photometric <= 1600

\* A dark interior with no saturation difference reaches the floor of -80.
C25_Witness ==
    /\ op = "_score_document"
    /\ args.image.interior_brightness - args.image.exterior_brightness < -40
    /\ args.image.exterior_sat <= args.image.interior_sat
    /\ ret.photometric = -800

\* ------------------------------------------------------------ claim C26
\* A coordinate within the margin of a boundary of its axis.
NearBoundary(coordinate, size) ==
    coordinate <= margin \/ coordinate >= size - margin

\* C26: the penalty is 10 for each corner within 5 px of an image boundary,
\* counted separately on the x axis and on the y axis, so that two corners
\* lose at most 40 and the quad loses a multiple of 10 between 0 and 80.
C26_EdgePenalty ==
    op = "_score_document" =>
        LET near == { <<i, axis>> \in (1..4) \X (1..2) :
                        NearBoundary(args.quad[i][axis], ScoreShape[axis]) }
        IN  /\ ret.edge_penalty = 10 * Cardinality(near)
            /\ ret.edge_penalty \in {0, 10, 20, 30, 40, 50, 60, 70, 80}
            /\ \A i, j \in 1..4 :
                 i # j => 10 * Cardinality({p \in near : p[1] \in {i, j}}) <= 40

\* A quad with a corner in a corner of the image and a corner clear of every
\* boundary loses 20 for the first and nothing for the second.
C26_Witness ==
    /\ op = "_score_document"
    /\ args.quad[1] = <<0, 0>>
    /\ args.quad[3] = <<34, 14>>
    /\ ret.edge_penalty = 40

\* ------------------------------------------------------------ claim C27
\* The four rows of a 4x2 array are pairwise distinct points.
PairwiseDistinct(pts) == \A i, j \in DOMAIN pts : i # j => pts[i] # pts[j]

\* C27: for every input of four pairwise-distinct points (axis-aligned
\* diamonds such as (1,0),(2,1),(1,2),(0,1) included) the output of
\* _order_points is a permutation of the input: each input point appears
\* exactly once, none is duplicated or dropped.
C27_Permutation ==
    (op = "_order_points" /\ PairwiseDistinct(args)) =>
        /\ PairwiseDistinct(ret)
        /\ {ret[i] : i \in DOMAIN ret} = {args[i] : i \in DOMAIN args}

\* ------------------------------------------------------------ claim C28
\* C28: for every brightness, contrast and auto_enhance value enhance_scan
\* with filter mode scan applies to the copy of the image exactly the
\* filters it applies with filter mode color, and so returns the same
\* image; only grayscale and bw add a conversion; with auto_enhance off and
\* brightness = contrast = 0 the color result is the untouched copy, equal
\* to the input pixel for pixel.
C28_ScanIsColor ==
    (op = "enhance_scan" /\ pc = "done") =>
        /\ args.mode = "scan" =>
               result = EnhanceFilters([args EXCEPT !.mode = "color"])
        /\ args.mode = "color" =>
               result = EnhanceFilters([args EXCEPT !.mode = "scan"])
        /\ (\E i \in 1..Len(result) : result[i] \in {"cvtColor BGR2GRAY",
                  "cvtColor GRAY2BGR", "_clean_document_binarization"})
               <=> args.mode \in {"grayscale", "bw"}
        /\ (/\ args.mode \in {"color", "scan"}
            /\ ~args.auto_enhance
            /\ args.brightness = 0
            /\ args.contrast = 0) => result = <<>>

\* A scan-mode call with auto-enhance and a brightness change applied these
\* two filters and nothing else.
C28_Witness ==
    /\ op = "enhance_scan"
    /\ pc = "done"
    /\ args.mode = "scan"
    /\ args.auto_enhance
    /\ args.brightness = 50
    /\ result = << "_auto_enhance", "_adjust_brightness_contrast" >>

\* -------------------------------------------------------- background tasks
\* process_single_document and process_bulk_documents, step by step.  What
\* the file system and the scanner do with a document is its fate: the file
\* cannot be read, one of the scanner calls raises, one of the two writes
\* fails, or all goes well.

\* Most documents in one bulk task.
MaxDocuments == 3

Fates ==
    {"unreadable", "detect_raises", "transform_raises", "enhance_raises",
     "write_failed", "thumbnail_raises", "thumbnail_write_failed", "ok"}

\* update_task_progress(task_id, current, total, status): the record is
\* stored and published, unless Redis fails, which is logged and nothing
\* more.
UpdateTaskProgress(records, current, total, status, redis_up) ==
    IF redis_up
    THEN Append(records,
                [ current |-> current, total |-> total,
                  percentage |-> IF total > 0
                                 THEN RoundHalfEven(current * 100, total) ELSE 0,
                  status |-> status ])
    ELSE records

Failed(error) == [status |-> "failed", error |-> error]

\* The document raises in the scanner call named, when the task makes that
\* call: edges are detected only without corners, the image is enhanced by
\* process_single_document only with settings.
Raises(a, call) ==
    \/ call = "detect" /\ a.fate = "detect_raises" /\ ~a.corners
    \/ call = "transform" /\ a.fate = "transform_raises"
    \/ call = "enhance" /\ a.fate = "enhance_raises" /\ a.settings_dict
    \/ call = "thumbnail" /\ a.fate = "thumbnail_raises"

\* process_single_document is started: the first progress record.
SingleStart ==
    /\ op = "none"
    /\ pc = "idle"
    /\ \E fate \in Fates, corners \in BOOLEAN, settings_dict \in BOOLEAN,
          redis_up \in BOOLEAN :
        /\ op' = "process_single_document"
        /\ args' = [fate |-> fate, corners |-> corners,
                    settings_dict |-> settings_dict]
        /\ published' = UpdateTaskProgress(<<>>, 0, 100, "processing", redis_up)
    /\ pc' = "imread"
    /\ UNCHANGED <<ret, result, heap, scanner, calls, locals>>

\* except Exception as e: the failure is published and returned.
SingleExcept(redis_up) ==
    /\ published' = UpdateTaskProgress(published, 0, 100, "failed", redis_up)
    /\ ret' = Failed("str(e)")
    /\ pc' = "done"

\* A return from inside the try block.
SingleReturn(value) ==
    /\ ret' = value
    /\ pc' = "done"
    /\ UNCHANGED published

\* The next progress record, and on to the next step.
SingleProgress(current, next, redis_up) ==
    /\ published' = UpdateTaskProgress(published, current, 100, "processing", redis_up)
    /\ pc' = next
    /\ UNCHANGED ret

\* image = cv2.imread(file_path); if image is None: return failed.
SingleImread ==
    /\ op = "process_single_document"
    /\ pc = "imread"
    /\ \E redis_up \in BOOLEAN :
        IF args.fate = "unreadable"
        THEN SingleReturn(Failed("Could not read image file"))
        ELSE SingleProgress(20, "corners", redis_up)
    /\ UNCHANGED <<op, args, result, heap, scanner, calls, locals>>

\* The corners given, or scanner.detect_document_edges(image).
SingleCorners ==
    /\ op = "process_single_document"
    /\ pc = "corners"
    /\ \E redis_up \in BOOLEAN :
        IF Raises(args, "detect") THEN SingleExcept(redis_up)
        ELSE SingleProgress(40, "transform", redis_up)
    /\ UNCHANGED <<op, args, result, heap, scanner, calls, locals>>

\* scanner.perspective_transform, and with settings scanner.rotate_image.
SingleTransform ==
    /\ op = "process_single_document"
    /\ pc = "transform"
    /\ \E redis_up \in BOOLEAN :
        IF Raises(args, "transform") THEN SingleExcept(redis_up)
        ELSE IF args.settings_dict THEN SingleProgress(60, "enhance", redis_up)
        ELSE SingleProgress(80, "save", redis_up)
    /\ UNCHANGED <<op, args, result, heap, scanner, calls, locals>>

\* scanner.enhance_scan(warped, ...).
SingleEnhance ==
    /\ op = "process_single_document"
    /\ pc = "enhance"
    /\ \E redis_up \in BOOLEAN :
        IF Raises(args, "enhance") THEN SingleExcept(redis_up)
        ELSE SingleProgress(80, "save", redis_up)
    /\ UNCHANGED <<op, args, result, heap, scanner, calls, locals>>

\* The processed image and the thumbnail are written; each failed write
\* returns at once.
SingleSave ==
    /\ op = "process_single_document"
    /\ pc = "save"
    /\ \E redis_up \in BOOLEAN :
        IF args.fate = "write_failed"
        THEN SingleReturn(Failed("Failed to write processed image"))
        ELSE IF Raises(args, "thumbnail") THEN SingleExcept(redis_up)
        ELSE IF args.fate = "thumbnail_write_failed"
        THEN SingleReturn(Failed("Failed to write thumbnail image"))
        ELSE /\ published' = UpdateTaskProgress(published, 100, 100, "completed", redis_up)
             /\ ret' = [status |-> "completed"]
             /\ pc' = "done"
    /\ UNCHANGED <<op, args, result, heap, scanner, calls, locals>>

\* The documents of a bulk task: the API gives each its uuid; here the uuid
\* is the position in the request.
Documents(fates) ==
    [i \in 1..Len(fates) |-> [uuid |-> i, fate |-> fates[i]]]

FateLists == UNION {[1..n -> Fates] : n \in 1..MaxDocuments}

\* The body of the loop of process_bulk_documents for one document: the
\* entry appended to results.  Bulk documents come without corners and are
\* always enhanced.
DocumentResult(doc) ==
    IF doc.fate = "unreadable"
    THEN [document_uuid |-> doc.uuid, status |-> "failed",
          error |-> "Could not read image file"]
    ELSE IF doc.fate \in {"detect_raises", "transform_raises", "enhance_raises"}
    THEN [document_uuid |-> doc.uuid, status |-> "failed", error |-> "str(e)"]
    ELSE IF doc.fate = "write_failed"
    THEN [document_uuid |-> doc.uuid, status |-> "failed",
          error |-> "Failed to write processed image"]
    ELSE IF doc.fate = "thumbnail_raises"
    THEN [document_uuid |-> doc.uuid, status |-> "failed", error |-> "str(e)"]
    ELSE IF doc.fate = "thumbnail_write_failed"
    THEN [document_uuid |-> doc.uuid, status |-> "failed",
          error |-> "Failed to write thumbnail image"]
    ELSE [document_uuid |-> doc.uuid, status |-> "completed", error |-> ""]

\* The iterations that end with `continue` and so skip the progress update.
Continues(doc) ==
    doc.fate \in {"unreadable", "write_failed", "thumbnail_write_failed"}

\* sum(1 for r in results if r["status"] == "completed").
Successful(results) ==
    Cardinality({i \in DOMAIN results : results[i].status = "completed"})

\* A plausible slip in the final status: any failure fails the whole task.
FinalStatusAllOrNothing(successful, total) ==
    IF successful = total THEN "completed" ELSE "failed"

\* final_status.
FinalStatus(successful, total) ==
    IF successful = total THEN "completed"
    ELSE IF successful > 0 THEN "partial"
    ELSE "failed"

\* process_bulk_documents is started on a list of documents.
BulkStart ==
    /\ op = "none"
    /\ pc = "idle"
    /\ \E fates \in FateLists, redis_up \in BOOLEAN :
        /\ op' = "process_bulk_documents"
        /\ args' = [documents |-> Documents(fates)]
        /\ locals' = [idx |-> 0, total |-> Len(fates), results |-> <<>>]
        /\ published' = UpdateTaskProgress(<<>>, 0, Len(fates), "processing", redis_up)
    /\ pc' = "loop"
    /\ UNCHANGED <<ret, result, heap, scanner, calls>>

\* One iteration of `for idx, doc in enumerate(documents)`.
BulkDocument ==
    /\ op = "process_bulk_documents"
    /\ pc = "loop"
    /\ locals.idx < locals.total
    /\ LET doc == args.documents[locals.idx + 1]
       IN  /\ locals' = [locals EXCEPT !.idx = @ + 1,
                                       !.results = Append(@, DocumentResult(doc))]
           /\ \E redis_up \in BOOLEAN :
                published' =
                    IF Continues(doc) THEN published
                    ELSE UpdateTaskProgress(published, locals.idx + 1,
                                            locals.total, "processing", redis_up)
    /\ UNCHANGED <<op, args, ret, pc, result, heap, scanner, calls>>

\* After the loop: the final status is published and the results returned.
BulkFinish ==
    /\ op = "process_bulk_documents"
    /\ pc = "loop"
    /\ locals.idx = locals.total
    /\ LET successful == Successful(locals.results)
           final_status == FinalStatus(successful, locals.total)
       IN  /\ \E redis_up \in BOOLEAN :
                published' = UpdateTaskProgress(published, locals.total,
                                               locals.total, final_status, redis_up)
           /\ ret' = [status |-> final_status, total |-> locals.total,
                      successful |-> successful, results |-> locals.results]
    /\ pc' = "done"
    /\ UNCHANGED <<op, args, result, heap, scanner, calls, locals>>

NextTasks ==
    \/ SingleStart
    \/ SingleImread
    \/ SingleCorners
    \/ SingleTransform
    \/ SingleEnhance
    \/ SingleSave
    \/ BulkStart
    \/ BulkDocument
    \/ BulkFinish

SpecTasks == Init /\ [][NextTasks]_vars

\* ------------------------------------------------------------ claim C29
\* C29: for every non-empty list of documents process_bulk_documents
\* returns exactly one result entry per document, in input order; its
\* status is completed exactly when every entry is completed, failed exactly
\* when none is and partial otherwise; a failure on one document never
\* stops the following ones: each document that can be processed has a
\* completed entry, whatever came before it.
C29_BulkResults ==
    (op = "process_bulk_documents" /\ pc = "done") =>
        LET results == ret.results
            completed == {i \in DOMAIN results : results[i].status = "completed"}
        IN  /\ Len(results) = Len(args.documents)
            /\ \A i \in DOMAIN results :
                 /\ results[i].document_uuid = args.documents[i].uuid
                 /\ results[i].status \in {"completed", "failed"}
                 /\ (results[i].status = "completed")
                        <=> (args.documents[i].fate = "ok")
            /\ (ret.status = "completed") <=> (completed = DOMAIN results)
            /\ (ret.status = "failed") <=> (completed = {})
            /\ (ret.status = "partial")
                   <=> (completed # {} /\ completed # DOMAIN results)

\* An unreadable first document, then a good one: two entries in order, the
\* second completed, the task partial.
C29_Witness ==
    /\ op = "process_bulk_documents"
    /\ pc = "done"
    /\ Len(args.documents) = 2
    /\ args.documents[1].fate = "unreadable"
    /\ args.documents[2].fate = "ok"
    /\ ret.results[1].status = "failed"
    /\ ret.results[2].status = "completed"
    /\ ret.status = "partial"

\* ------------------------------------------------------------ claim C30
\* C30: whenever process_single_document returns a result with status
\* failed, the last progress record published for the task has status
\* failed; whenever it returns completed, the last progress record has
\* status completed with current equal to total.
C30_LastProgress ==
    (op = "process_single_document" /\ pc = "done") =>
        /\ published # <<>>
        /\ LET last == published[Len(published)]
           IN  /\ ret.status = "failed" => last.status = "failed"
               /\ ret.status = "completed" =>
                      (last.status = "completed" /\ last.current = last.total)

====
